---- MODULE Spec2Model ----
(***************************************************************************)
(* Model of the copy-trade core of TaskiranEmlak/coppol:                   *)
(*   app/engine/paper_trader.py  PaperTrader (the Simulator)               *)
(*   app/models/trade.py         Trade, TradingStats                       *)
(*   app/brain/decider.py        CopyDecider (the Decider)                 *)
(*   app/database.py             the persistent store                      *)
(*   app/main.py                 monitor_whales and the HTTP handlers      *)
(*                                                                         *)
(* Units.  Money is an integer number of cents.  A signal price is an      *)
(* integer number of hundredths (0..100 for 0.00..1.00).  Entry, exit and  *)
(* final prices are parts per million (PriceScale = 1.0).  Slippage is in  *)
(* units of 1/10000 (SlipScale = 100%).  Scores are whole points 0..100.   *)
(* Python's None is the empty tuple, a present value v is <<v>>.           *)
(***************************************************************************)
EXTENDS Integers, Sequences, FiniteSets, TLC

VARIABLES
    balance,            \* PaperTrader._balance
    initial_balance,    \* PaperTrader._initial_balance
    positions,          \* PaperTrader._positions: trade id -> Trade
    trade_history,      \* PaperTrader._trade_history
    stats,              \* PaperTrader._stats
    balance_history,    \* PaperTrader._balance_history
    recent_decisions,   \* CopyDecider._recent_decisions: market id -> time
    open_positions,     \* CopyDecider._open_positions: market id -> trade id
    db_trades,          \* rows of the trades table: trade id -> row
    db_balance,         \* rows of the balance_history table, oldest first
    now,                \* datetime.utcnow(), in minutes
    next_id,            \* the next fresh uuid4
    cycle,              \* monitor_whales: the signals of the running cycle
    traders,            \* TraderRanker._traders, in dict insertion order
    rankings,           \* TraderRanker._rankings: addresses, best first
    last                \* the last call: its arguments and its result

vars == <<balance, initial_balance, positions, trade_history, stats,
          balance_history, recent_decisions, open_positions, db_trades,
          db_balance, now, next_id, cycle, traders, rankings, last>>

simVars == <<balance, initial_balance, positions, trade_history, stats,
             balance_history>>

deciderVars == <<recent_decisions, open_positions>>

dbVars == <<db_trades, db_balance>>

rankerVars == <<traders, rankings>>

----------------------------------------------------------------------------
(* Units and program constants *)

Dollar == 100

PriceScale == 1000000

SlipScale == 10000

PaperInitialBalance == 100000

None == <<>>

(* an empty dict *)
EmptyMap == [k \in {} |-> 0]

Some(v) == <<v>>

Val(o) == o[1]

Min(a, b) == IF a <= b THEN a ELSE b

Max(a, b) == IF a >= b THEN a ELSE b

Abs(a) == IF a >= 0 THEN a ELSE -a

(* floor(a * b / n) for 0 <= a < 10^6, 0 <= b <= 10^6, 0 < n <= 10^6,      *)
(* split so that no intermediate product leaves 32 bits.                   *)
MulDiv(a, b, n) ==
    LET ah == a \div 1000
        al == a % 1000
        t  == 1000 * b
        x  == ah * (t % n)
        y  == al * b
    IN  ah * (t \div n) + (x \div n) + (y \div n) + (((x % n) + (y % n)) \div n)

----------------------------------------------------------------------------
(* Bounds of the model *)

MaxTrades == 2

MaxTime == 30

----------------------------------------------------------------------------
(* app/models/trade.py *)

Sides == {"YES", "NO"}

(* Trade(...) as PaperTrader constructs it: status OPEN, nothing settled *)
NewTrade(id, market_id, side, amount, entry_price) ==
    [id |-> id, market_id |-> market_id, side |-> side, amount |-> amount,
     entry_price |-> entry_price, exit_price |-> None, status |-> "OPEN",
     profit |-> None, profit_percent |-> None]

(* calculate_profit paying a NO winner by the YES formula *)
calculate_profit_one_formula(t) ==
    IF t.exit_price = None THEN t
    ELSE LET exit == Val(t.exit_price)
             p == IF t.side = "YES"
                  THEN IF exit >= 990000
                       THEN MulDiv(t.amount, PriceScale - t.entry_price, t.entry_price)
                       ELSE -t.amount
                  ELSE IF exit <= 10000
                       THEN MulDiv(t.amount, PriceScale - t.entry_price, t.entry_price)
                       ELSE -t.amount
         IN  [t EXCEPT !.profit = Some(p),
                       !.profit_percent =
                           IF t.amount > 0 THEN Some((p * 100) \div t.amount)
                           ELSE t.profit_percent]

(* calculate_profit valuing a close at any other price at that price *)
calculate_profit_marked_to_market(t) ==
    IF t.exit_price = None THEN t
    ELSE LET exit == Val(t.exit_price)
             p == IF t.side = "YES"
                  THEN IF exit >= 990000
                       THEN MulDiv(t.amount, PriceScale - t.entry_price, t.entry_price)
                       ELSE MulDiv(t.amount, exit - t.entry_price, t.entry_price)
                  ELSE IF exit <= 10000
                       THEN MulDiv(t.amount, t.entry_price, PriceScale - t.entry_price)
                       ELSE MulDiv(t.amount, t.entry_price - exit,
                                   PriceScale - t.entry_price)
         IN  [t EXCEPT !.profit = Some(p),
                       !.profit_percent =
                           IF t.amount > 0 THEN Some((p * 100) \div t.amount)
                           ELSE t.profit_percent]

(* Trade.calculate_profit: binary payout; the trade with profit and        *)
(* profit_percent written                                                  *)
calculate_profit(t) ==
    IF t.exit_price = None THEN t
    ELSE LET exit == Val(t.exit_price)
             p == IF t.side = "YES"
                  THEN IF exit >= 990000
                       THEN MulDiv(t.amount, PriceScale - t.entry_price, t.entry_price)
                       ELSE -t.amount
                  ELSE IF exit <= 10000
                       THEN MulDiv(t.amount, t.entry_price, PriceScale - t.entry_price)
                       ELSE -t.amount
         IN  [t EXCEPT !.profit = Some(p),
                       !.profit_percent =
                           IF t.amount > 0 THEN Some((p * 100) \div t.amount)
                           ELSE t.profit_percent]

RatioScale == 1000

(* p / q as a fixed-point number with RatioScale steps per unit *)
Ratio(p, q) == (p \div q) * RatioScale + ((p % q) * RatioScale) \div q

(* TradingStats() *)
NewStats ==
    [total_trades |-> 0, open_trades |-> 0, closed_trades |-> 0,
     wins |-> 0, losses |-> 0, win_rate |-> 0,
     total_profit |-> 0, total_invested |-> 0, roi |-> 0,
     best_trade_profit |-> 0, worst_trade_loss |-> 0,
     avg_profit_per_trade |-> 0]

(* TradingStats.update adding only the profits of winning trades to       *)
(* total_profit                                                            *)
StatsUpdateWinsOnly(st, t) ==
    IF t.status # "CLOSED" \/ t.profit = None THEN st
    ELSE LET p == Val(t.profit)
             closed == st.closed_trades + 1
             invested == st.total_invested + t.amount
             total == st.total_profit + (IF p > 0 THEN p ELSE 0)
             wins == IF p > 0 THEN st.wins + 1 ELSE st.wins
         IN  [st EXCEPT
                !.closed_trades = closed,
                !.total_invested = invested,
                !.total_profit = total,
                !.wins = wins,
                !.losses = IF p > 0 THEN st.losses ELSE st.losses + 1,
                !.best_trade_profit =
                    IF p > 0 /\ p > st.best_trade_profit THEN p
                    ELSE st.best_trade_profit,
                !.worst_trade_loss =
                    IF ~(p > 0) /\ p < st.worst_trade_loss THEN p
                    ELSE st.worst_trade_loss,
                !.win_rate = Ratio(wins, closed),
                !.avg_profit_per_trade = total \div closed,
                !.roi = IF invested > 0 THEN Ratio(total, invested) ELSE st.roi]

(* TradingStats.update *)
StatsUpdate(st, t) ==
    IF t.status # "CLOSED" \/ t.profit = None THEN st
    ELSE LET p == Val(t.profit)
             closed == st.closed_trades + 1
             invested == st.total_invested + t.amount
             total == st.total_profit + p
             wins == IF p > 0 THEN st.wins + 1 ELSE st.wins
         IN  [st EXCEPT
                !.closed_trades = closed,
                !.total_invested = invested,
                !.total_profit = total,
                !.wins = wins,
                !.losses = IF p > 0 THEN st.losses ELSE st.losses + 1,
                !.best_trade_profit =
                    IF p > 0 /\ p > st.best_trade_profit THEN p
                    ELSE st.best_trade_profit,
                !.worst_trade_loss =
                    IF ~(p > 0) /\ p < st.worst_trade_loss THEN p
                    ELSE st.worst_trade_loss,
                !.win_rate = Ratio(wins, closed),
                !.avg_profit_per_trade = total \div closed,
                !.roi = IF invested > 0 THEN Ratio(total, invested) ELSE st.roi]

----------------------------------------------------------------------------
(* app/engine/paper_trader.py *)

RECURSIVE SumAmounts(_, _)
SumAmounts(pos, ids) ==
    IF ids = {} THEN 0
    ELSE LET i == CHOOSE j \in ids : TRUE
         IN  pos[i].amount + SumAmounts(pos, ids \ {i})

(* PaperTrader.total_value *)
TotalValue(bal, pos) == bal + SumAmounts(pos, DOMAIN pos)

(* PaperTrader.pnl *)
Pnl(bal, pos, init) == TotalValue(bal, pos) - init

(* the sample PaperTrader._record_balance appends; its timestamp, which   *)
(* nothing reads, is left out                                              *)
BalanceSample(bal, pos, init, hist) ==
    [balance |-> bal, pnl |-> Pnl(bal, pos, init), trade_count |-> Len(hist)]

(* execute_trade: total_slippage = base_slippage + min(amount / 100, 0.02) *)
TotalSlippage(amount, base_slippage) == base_slippage + Min(amount, 200)

(* execute_trade: the price moved against the buyer, before the clamp *)
RealisticPrice(signal, amount, base_slippage) ==
    IF signal.side = "YES"
    THEN signal.price * (SlipScale + TotalSlippage(amount, base_slippage))
    ELSE signal.price * (SlipScale - TotalSlippage(amount, base_slippage))

(* the rejection of execute_trade at a deviation above 3% *)
SlippageTooHighAtThreePercent(signal, amount, base_slippage) ==
    100 * Abs(RealisticPrice(signal, amount, base_slippage) - signal.price * SlipScale)
        > 3 * Max(signal.price * SlipScale, 10000)

(* execute_trade: abs(realistic - price) / max(price, 0.01) > 0.10 *)
SlippageTooHigh(signal, amount, base_slippage) ==
    10 * Abs(RealisticPrice(signal, amount, base_slippage) - signal.price * SlipScale)
        > Max(signal.price * SlipScale, 10000)

(* execute_trade capping the price from above only *)
ClampPriceFromAbove(p) == Min(990000, p)

(* execute_trade: max(0.01, min(0.99, realistic_price)) *)
ClampPrice(p) == Max(10000, Min(990000, p))

(* the row save_trade inserts *)
TradeRow(t) ==
    [id |-> t.id, market_id |-> t.market_id, side |-> t.side,
     amount |-> t.amount, entry_price |-> t.entry_price, status |-> "OPEN"]

(* execute_trade without its balance check *)
ExecuteResultUnchecked(signal, decision, base_slippage) ==
    LET amount == decision.amount
    IN  IF ~decision.should_copy THEN None
        ELSE IF SlippageTooHigh(signal, amount, base_slippage) THEN None
        ELSE Some(NewTrade(next_id, signal.market_id, signal.side, amount,
                           ClampPrice(RealisticPrice(signal, amount, base_slippage))))

(* PaperTrader.execute_trade: the Trade it returns, or None *)
ExecuteResult(signal, decision, base_slippage) ==
    LET amount == decision.amount
    IN  IF ~decision.should_copy THEN None
        ELSE IF amount > balance THEN None
        ELSE IF SlippageTooHigh(signal, amount, base_slippage) THEN None
        ELSE Some(NewTrade(next_id, signal.market_id, signal.side, amount,
                           ClampPrice(RealisticPrice(signal, amount, base_slippage))))

(* execute_trade recording the balance before its early returns *)
execute_trade_recording(signal, decision, base_slippage, save_ok) ==
    LET result == ExecuteResult(signal, decision, base_slippage)
        trade == Val(result)
    IN  IF result # None
        THEN /\ next_id <= MaxTrades
             /\ balance' = balance - trade.amount
             /\ positions' = [i \in DOMAIN positions \cup {trade.id} |->
                                IF i = trade.id THEN trade ELSE positions[i]]
             /\ stats' = [stats EXCEPT !.total_trades = @ + 1,
                                       !.open_trades = @ + 1]
             /\ db_trades' = IF save_ok
                             THEN [i \in DOMAIN db_trades \cup {trade.id} |->
                                     IF i = trade.id THEN TradeRow(trade)
                                     ELSE db_trades[i]]
                             ELSE db_trades
             /\ balance_history' = Append(balance_history,
                    BalanceSample(balance', positions', initial_balance, trade_history))
             /\ next_id' = next_id + 1
             /\ UNCHANGED <<initial_balance, trade_history, db_balance>>
        ELSE /\ Len(balance_history) < MaxTrades + 2
             /\ balance_history' = Append(balance_history,
                    BalanceSample(balance, positions, initial_balance, trade_history))
             /\ UNCHANGED <<balance, initial_balance, positions, trade_history,
                            stats, dbVars, next_id>>

(* execute_trade undoing the trade when save_trade raises *)
execute_trade_rollback(signal, decision, base_slippage, save_ok) ==
    LET result == ExecuteResult(signal, decision, base_slippage)
        trade == Val(result)
    IN  IF result # None /\ save_ok
        THEN /\ next_id <= MaxTrades
             /\ balance' = balance - trade.amount
             /\ positions' = [i \in DOMAIN positions \cup {trade.id} |->
                                IF i = trade.id THEN trade ELSE positions[i]]
             /\ stats' = [stats EXCEPT !.total_trades = @ + 1,
                                       !.open_trades = @ + 1]
             /\ db_trades' = [i \in DOMAIN db_trades \cup {trade.id} |->
                                IF i = trade.id THEN TradeRow(trade)
                                ELSE db_trades[i]]
             /\ balance_history' = Append(balance_history,
                    BalanceSample(balance', positions', initial_balance, trade_history))
             /\ next_id' = next_id + 1
             /\ UNCHANGED <<initial_balance, trade_history, db_balance>>
        ELSE UNCHANGED <<simVars, dbVars, next_id>>

(* PaperTrader.execute_trade; save_ok = FALSE is save_trade raising *)
execute_trade(signal, decision, base_slippage, save_ok) ==
    LET result == ExecuteResult(signal, decision, base_slippage)
        trade == Val(result)
    IN  IF result # None
        THEN /\ next_id <= MaxTrades
             /\ balance' = balance - trade.amount
             /\ positions' = [i \in DOMAIN positions \cup {trade.id} |->
                                IF i = trade.id THEN trade ELSE positions[i]]
             /\ stats' = [stats EXCEPT !.total_trades = @ + 1,
                                       !.open_trades = @ + 1]
             /\ db_trades' = IF save_ok
                             THEN [i \in DOMAIN db_trades \cup {trade.id} |->
                                     IF i = trade.id THEN TradeRow(trade)
                                     ELSE db_trades[i]]
                             ELSE db_trades
             /\ balance_history' = Append(balance_history,
                    BalanceSample(balance', positions', initial_balance, trade_history))
             /\ next_id' = next_id + 1
             /\ UNCHANGED <<initial_balance, trade_history, db_balance>>
        ELSE UNCHANGED <<simVars, dbVars, next_id>>

(* PaperTrader.close_position: the Trade it returns, or None *)
CloseResult(trade_id, final_price, outcome) ==
    IF trade_id \notin DOMAIN positions THEN None
    ELSE LET exit == IF outcome = "YES" THEN PriceScale
                     ELSE IF outcome = "NO" THEN 0
                     ELSE final_price
             settled == calculate_profit(
                            [positions[trade_id] EXCEPT !.exit_price = Some(exit)])
         IN  Some([settled EXCEPT !.status = "CLOSED"])

(* close_position that also looks the trade up in the history, and pays a  *)
(* settled trade again                                                     *)
close_position_any(trade_id, final_price, outcome) ==
    LET result == CloseResult(trade_id, final_price, outcome)
        trade == Val(result)
        settled == {k \in 1 .. Len(trade_history) :
                      /\ trade_history[k].id = trade_id
                      /\ trade_history[k].status = "CLOSED"}
    IN  IF result = None
        THEN IF settled = {} THEN UNCHANGED simVars
             ELSE LET old == trade_history[CHOOSE k \in settled : TRUE]
                  IN  /\ balance < 4 * PaperInitialBalance
                      /\ balance' = balance + old.amount + Val(old.profit)
                      /\ UNCHANGED <<initial_balance, positions, trade_history,
                                     stats, balance_history>>
        ELSE /\ balance' = balance + trade.amount
                              + (IF trade.profit = None THEN 0 ELSE Val(trade.profit))
             /\ stats' = [StatsUpdate(stats, trade) EXCEPT !.open_trades = @ - 1]
             /\ positions' = [i \in DOMAIN positions \ {trade_id} |-> positions[i]]
             /\ trade_history' = Append(trade_history, trade)
             /\ balance_history' = Append(balance_history,
                    BalanceSample(balance', positions', initial_balance, trade_history'))
             /\ UNCHANGED initial_balance

(* close_position putting the new sample in front of the history *)
close_position_newest_first(trade_id, final_price, outcome) ==
    LET result == CloseResult(trade_id, final_price, outcome)
        trade == Val(result)
    IN  IF result = None THEN UNCHANGED simVars
        ELSE /\ balance' = balance + trade.amount
                              + (IF trade.profit = None THEN 0 ELSE Val(trade.profit))
             /\ stats' = [StatsUpdate(stats, trade) EXCEPT !.open_trades = @ - 1]
             /\ positions' = [i \in DOMAIN positions \ {trade_id} |-> positions[i]]
             /\ trade_history' = Append(trade_history, trade)
             /\ balance_history' =
                    <<BalanceSample(balance', positions', initial_balance,
                                    trade_history')>> \o balance_history
             /\ UNCHANGED initial_balance

(* PaperTrader.close_position *)
close_position(trade_id, final_price, outcome) ==
    LET result == CloseResult(trade_id, final_price, outcome)
        trade == Val(result)
    IN  IF result = None THEN UNCHANGED simVars
        ELSE /\ balance' = balance + trade.amount
                              + (IF trade.profit = None THEN 0 ELSE Val(trade.profit))
             /\ stats' = [StatsUpdate(stats, trade) EXCEPT !.open_trades = @ - 1]
             /\ positions' = [i \in DOMAIN positions \ {trade_id} |-> positions[i]]
             /\ trade_history' = Append(trade_history, trade)
             /\ balance_history' = Append(balance_history,
                    BalanceSample(balance', positions', initial_balance, trade_history'))
             /\ UNCHANGED initial_balance

(* cancel_position leaving the status as it was *)
CancelResultStillOpen(trade_id) ==
    IF trade_id \notin DOMAIN positions THEN None
    ELSE Some([positions[trade_id] EXCEPT !.profit = Some(0)])

(* PaperTrader.cancel_position: the Trade it returns, or None *)
CancelResult(trade_id) ==
    IF trade_id \notin DOMAIN positions THEN None
    ELSE Some([positions[trade_id] EXCEPT !.status = "CANCELLED", !.profit = Some(0)])

(* cancel_position without the refund *)
cancel_position_no_refund(trade_id) ==
    LET result == CancelResult(trade_id)
        trade == Val(result)
    IN  IF result = None THEN UNCHANGED simVars
        ELSE /\ stats' = [stats EXCEPT !.open_trades = @ - 1]
             /\ positions' = [i \in DOMAIN positions \ {trade_id} |-> positions[i]]
             /\ trade_history' = Append(trade_history, trade)
             /\ UNCHANGED <<balance, initial_balance, balance_history>>

(* cancel_position counting the cancelled trade as a closed, losing one *)
cancel_position_as_loss(trade_id) ==
    LET result == CancelResult(trade_id)
        trade == Val(result)
    IN  IF result = None THEN UNCHANGED simVars
        ELSE /\ balance' = balance + trade.amount
             /\ stats' = [StatsUpdate(stats, [trade EXCEPT !.status = "CLOSED"])
                             EXCEPT !.open_trades = @ - 1]
             /\ positions' = [i \in DOMAIN positions \ {trade_id} |-> positions[i]]
             /\ trade_history' = Append(trade_history, trade)
             /\ UNCHANGED <<initial_balance, balance_history>>

(* PaperTrader.cancel_position *)
cancel_position(trade_id) ==
    LET result == CancelResult(trade_id)
        trade == Val(result)
    IN  IF result = None THEN UNCHANGED simVars
        ELSE /\ balance' = balance + trade.amount
             /\ stats' = [stats EXCEPT !.open_trades = @ - 1]
             /\ positions' = [i \in DOMAIN positions \ {trade_id} |-> positions[i]]
             /\ trade_history' = Append(trade_history, trade)
             /\ UNCHANGED <<initial_balance, balance_history>>

(* reset keeping the statistics and the balance history *)
reset_keeping_stats ==
    /\ balance' = initial_balance
    /\ positions' = EmptyMap
    /\ trade_history' = << >>
    /\ balance_history' = Append(balance_history,
                                 [balance |-> initial_balance, pnl |-> 0,
                                  trade_count |-> 0])
    /\ UNCHANGED <<initial_balance, stats>>

(* PaperTrader.reset *)
reset ==
    /\ balance' = initial_balance
    /\ positions' = EmptyMap
    /\ trade_history' = << >>
    /\ stats' = NewStats
    /\ balance_history' = <<[balance |-> initial_balance, pnl |-> 0,
                             trade_count |-> 0]>>
    /\ UNCHANGED initial_balance

(* PaperTrader.__init__ restoring the open positions without counting     *)
(* them in the statistics                                                  *)
PaperTraderInitUncounted(initial_arg, rows, balance_rows, load_ok) ==
    LET init == IF initial_arg = None \/ Val(initial_arg) = 0
                THEN PaperInitialBalance ELSE Val(initial_arg)
        bal == IF Len(balance_rows) > 0
               THEN balance_rows[Len(balance_rows)].balance ELSE init
        open == IF load_ok
                THEN {i \in DOMAIN rows : rows[i].status = "OPEN"} ELSE {}
        pos == [i \in open |-> NewTrade(rows[i].id, rows[i].market_id, rows[i].side,
                                        rows[i].amount, rows[i].entry_price)]
    IN  [initial_balance |-> init, balance |-> bal, positions |-> pos,
         trade_history |-> << >>,
         stats |-> NewStats,
         balance_history |-> <<[balance |-> bal, pnl |-> Pnl(bal, pos, init),
                                trade_count |-> Cardinality(open)]>>]

(* PaperTrader.__init__ with _load_open_positions_from_db, against the     *)
(* store's rows; load_ok = FALSE is get_open_trades raising.  The new      *)
(* field values, as a record.                                              *)
PaperTraderInit(initial_arg, rows, balance_rows, load_ok) ==
    LET init == IF initial_arg = None \/ Val(initial_arg) = 0
                THEN PaperInitialBalance ELSE Val(initial_arg)
        bal == IF Len(balance_rows) > 0
               THEN balance_rows[Len(balance_rows)].balance ELSE init
        open == IF load_ok
                THEN {i \in DOMAIN rows : rows[i].status = "OPEN"} ELSE {}
        pos == [i \in open |-> NewTrade(rows[i].id, rows[i].market_id, rows[i].side,
                                        rows[i].amount, rows[i].entry_price)]
    IN  [initial_balance |-> init, balance |-> bal, positions |-> pos,
         trade_history |-> << >>,
         stats |-> [NewStats EXCEPT !.total_trades = Cardinality(open),
                                    !.open_trades = Cardinality(open)],
         balance_history |-> <<[balance |-> bal, pnl |-> Pnl(bal, pos, init),
                                trade_count |-> Cardinality(open)]>>]

----------------------------------------------------------------------------
(* app/brain/decider.py *)

MinWhaleScore == 50

MaxTradePercent == 50

MIN_SCORE_TO_COPY == 50

CONSENSUS_BONUS == 10

MAX_CONSENSUS_BONUS == 30

HIGH_CONFIDENCE_SCORE == 90

MEDIUM_CONFIDENCE_SCORE == 70

CooldownMinutes == 30

(* round(x, 2) of an amount given in thousandths of a cent; tie_up is the  *)
(* direction in which the binary value of a decimal tie x.xx5 falls        *)
RoundCents(a, tie_up) ==
    LET q == a \div 1000
        r == a % 1000
    IN  IF r > 500 \/ (r = 500 /\ tie_up) THEN q + 1 ELSE q

(* _calculate_amount never granting the full allowed percentage *)
calculate_amount_no_full_tier(bal, score, consensus, tie_up) ==
    LET max_amount == bal * MaxTradePercent * 10
        tiered == IF score >= MEDIUM_CONFIDENCE_SCORE
                  THEN bal * MaxTradePercent * 5
                  ELSE bal * MaxTradePercent * 2
        floored == Max(tiered, Dollar * 1000)
        capped == Min(Min(floored, max_amount), bal * 1000)
    IN  RoundCents(capped, tie_up)

(* CopyDecider._calculate_amount, balance in cents, result in cents *)
calculate_amount(bal, score, consensus, tie_up) ==
    LET max_amount == bal * MaxTradePercent * 10
        tiered == IF score >= HIGH_CONFIDENCE_SCORE /\ consensus >= 3
                  THEN max_amount
                  ELSE IF score >= MEDIUM_CONFIDENCE_SCORE
                       THEN bal * MaxTradePercent * 5
                       ELSE bal * MaxTradePercent * 2
        floored == Max(tiered, Dollar * 1000)
        capped == Min(Min(floored, max_amount), bal * 1000)
    IN  RoundCents(capped, tie_up)

(* _has_recent_decision with the comparison turned round *)
has_recent_decision_reversed(market_id) ==
    /\ market_id \in DOMAIN recent_decisions
    /\ now - recent_decisions[market_id] > CooldownMinutes

(* CopyDecider._has_recent_decision *)
has_recent_decision(market_id) ==
    /\ market_id \in DOMAIN recent_decisions
    /\ now - recent_decisions[market_id] < CooldownMinutes

(* decide, check 5: this whale plus the other whales' signals on the same  *)
(* market and side                                                         *)
RECURSIVE ConsensusCount(_, _)
ConsensusCount(signal, others) ==
    IF others = << >> THEN 1
    ELSE LET o == Head(others)
         IN  (IF /\ o.market_id = signal.market_id
                 /\ o.side = signal.side
                 /\ o.whale_address # signal.whale_address
              THEN 1 ELSE 0) + ConsensusCount(signal, Tail(others))

(* the final score with a consensus bonus that is not capped *)
FinalScoreUncappedBonus(score, consensus_count, market) ==
    LET bonus == (consensus_count - 1) * CONSENSUS_BONUS
        boosted == Min(score + bonus, 100)
    IN  IF market # None /\ Val(market).liquidity < 1000
        THEN Min(boosted, 60) ELSE boosted

(* decide: min(whale.score + min((consensus - 1) * 10, 30), 100), capped   *)
(* at 60 for a supplied market with liquidity < 1000                       *)
FinalScore(score, consensus_count, market) ==
    LET bonus == Min((consensus_count - 1) * CONSENSUS_BONUS, MAX_CONSENSUS_BONUS)
        boosted == Min(score + bonus, 100)
    IN  IF market # None /\ Val(market).liquidity < 1000
        THEN Min(boosted, 60) ELSE boosted

(* CopyDecision(...); reason is the gate that produced it *)
Decision(should_copy, amount, reason, confidence, consensus_count) ==
    [should_copy |-> should_copy, amount |-> amount, reason |-> reason,
     confidence |-> confidence, consensus_count |-> consensus_count]

(* decide without check 4, the open-position gate *)
DecideResultNoRegistryGate(signal, whale, bal, market, others, tie_up) ==
    LET consensus_count == ConsensusCount(signal, others)
        final_score == FinalScore(whale.score, consensus_count, market)
    IN  IF whale.score < MinWhaleScore
        THEN Decision(FALSE, 0, "score", whale.score, 1)
        ELSE IF bal < Dollar
        THEN Decision(FALSE, 0, "balance", whale.score, 1)
        ELSE IF has_recent_decision(signal.market_id)
        THEN Decision(FALSE, 0, "cooldown", whale.score, 1)
        ELSE IF final_score < MIN_SCORE_TO_COPY
        THEN Decision(FALSE, 0, "confidence", final_score, consensus_count)
        ELSE Decision(TRUE, calculate_amount(bal, final_score, consensus_count, tie_up),
                      "accept", final_score, consensus_count)

(* decide with the balance gate ahead of the score gate *)
DecideResultBalanceFirst(min_whale_score, signal, whale, bal, market, others, tie_up) ==
    LET consensus_count == ConsensusCount(signal, others)
        final_score == FinalScore(whale.score, consensus_count, market)
    IN  IF bal < Dollar
        THEN Decision(FALSE, 0, "balance", whale.score, 1)
        ELSE IF whale.score < min_whale_score
        THEN Decision(FALSE, 0, "score", whale.score, 1)
        ELSE IF has_recent_decision(signal.market_id)
        THEN Decision(FALSE, 0, "cooldown", whale.score, 1)
        ELSE IF signal.market_id \in DOMAIN open_positions
        THEN Decision(FALSE, 0, "open_position", whale.score, 1)
        ELSE IF final_score < MIN_SCORE_TO_COPY
        THEN Decision(FALSE, 0, "confidence", final_score, consensus_count)
        ELSE Decision(TRUE, calculate_amount(bal, final_score, consensus_count, tie_up),
                      "accept", final_score, consensus_count)

(* CopyDecider.decide: the decision it returns when settings.min_whale_score *)
(* is min_whale_score                                                      *)
DecideResultAt(min_whale_score, signal, whale, bal, market, others, tie_up) ==
    LET consensus_count == ConsensusCount(signal, others)
        final_score == FinalScore(whale.score, consensus_count, market)
    IN  IF whale.score < min_whale_score
        THEN Decision(FALSE, 0, "score", whale.score, 1)
        ELSE IF bal < Dollar
        THEN Decision(FALSE, 0, "balance", whale.score, 1)
        ELSE IF has_recent_decision(signal.market_id)
        THEN Decision(FALSE, 0, "cooldown", whale.score, 1)
        ELSE IF signal.market_id \in DOMAIN open_positions
        THEN Decision(FALSE, 0, "open_position", whale.score, 1)
        ELSE IF final_score < MIN_SCORE_TO_COPY
        THEN Decision(FALSE, 0, "confidence", final_score, consensus_count)
        ELSE Decision(TRUE, calculate_amount(bal, final_score, consensus_count, tie_up),
                      "accept", final_score, consensus_count)

(* CopyDecider.decide: the decision it returns under the configured       *)
(* min_whale_score                                                         *)
DecideResult(signal, whale, bal, market, others, tie_up) ==
    DecideResultAt(MinWhaleScore, signal, whale, bal, market, others, tie_up)

(* decide writing the cooldown entry before its checks, on every call *)
DecideCooldownsOnEveryCall(signal, decision) ==
    [m \in DOMAIN recent_decisions \cup {signal.market_id} |->
        IF m = signal.market_id THEN now ELSE recent_decisions[m]]

(* CopyDecider.decide: the cooldown map it leaves *)
DecideCooldowns(signal, decision) ==
    IF decision.should_copy
    THEN [m \in DOMAIN recent_decisions \cup {signal.market_id} |->
            IF m = signal.market_id THEN now ELSE recent_decisions[m]]
    ELSE recent_decisions

(* CopyDecider.decide *)
decide(signal, whale, bal, market, others, tie_up) ==
    LET decision == DecideResult(signal, whale, bal, market, others, tie_up)
    IN  /\ recent_decisions' = DecideCooldowns(signal, decision)
        /\ UNCHANGED open_positions

(* register_position storing nothing *)
RegisteredNowhere(market_id, trade_id) == open_positions

(* the registry register_position leaves *)
Registered(market_id, trade_id) ==
    [m \in DOMAIN open_positions \cup {market_id} |->
        IF m = market_id THEN trade_id ELSE open_positions[m]]

(* the registry CopyDecider.close_position leaves *)
Released(market_id) ==
    [m \in DOMAIN open_positions \ {market_id} |-> open_positions[m]]

(* CopyDecider.register_position *)
register_position(market_id, trade_id) ==
    /\ open_positions' = Registered(market_id, trade_id)
    /\ UNCHANGED recent_decisions

(* CopyDecider.close_position *)
decider_close_position(market_id) ==
    /\ open_positions' = Released(market_id)
    /\ UNCHANGED recent_decisions

(* CopyDecider.clear_cooldowns *)
clear_cooldowns ==
    /\ recent_decisions' = EmptyMap
    /\ UNCHANGED open_positions

----------------------------------------------------------------------------
(* get_consensus_for_market: the signals on the market with the side,      *)
(* counted in one pass                                                     *)
RECURSIVE CountSide(_, _, _)
CountSide(market_id, signals, side) ==
    IF signals = << >> THEN 0
    ELSE (IF Head(signals).market_id = market_id /\ Head(signals).side = side
          THEN 1 ELSE 0) + CountSide(market_id, Tail(signals), side)

(* strength, a percentage, in thousandths of a percent *)
StrengthScale == 1000

(* get_consensus_for_market counting the signals of every market *)
get_consensus_any_market(market_id, signals) ==
    LET yes_count == CountSide(market_id, signals, "YES")
                     + CountSide(3 - market_id, signals, "YES")
        no_count == CountSide(market_id, signals, "NO")
                    + CountSide(3 - market_id, signals, "NO")
        total == yes_count + no_count
    IN  [market_id |-> market_id,
         consensus |-> IF total = 0 THEN "NONE"
                       ELSE IF yes_count > no_count THEN "YES"
                       ELSE IF no_count > yes_count THEN "NO"
                       ELSE "MIXED",
         strength |-> IF total = 0 THEN 0
                      ELSE IF yes_count > no_count
                      THEN (yes_count * 100 * StrengthScale) \div total
                      ELSE IF no_count > yes_count
                      THEN (no_count * 100 * StrengthScale) \div total
                      ELSE 50 * StrengthScale,
         yes_count |-> yes_count, no_count |-> no_count]

(* CopyDecider.get_consensus_for_market: the dict it returns, without the  *)
(* address lists                                                           *)
get_consensus_for_market(market_id, signals) ==
    LET yes_count == CountSide(market_id, signals, "YES")
        no_count == CountSide(market_id, signals, "NO")
        total == yes_count + no_count
    IN  [market_id |-> market_id,
         consensus |-> IF total = 0 THEN "NONE"
                       ELSE IF yes_count > no_count THEN "YES"
                       ELSE IF no_count > yes_count THEN "NO"
                       ELSE "MIXED",
         strength |-> IF total = 0 THEN 0
                      ELSE IF yes_count > no_count
                      THEN (yes_count * 100 * StrengthScale) \div total
                      ELSE IF no_count > yes_count
                      THEN (no_count * 100 * StrengthScale) \div total
                      ELSE 50 * StrengthScale,
         yes_count |-> yes_count, no_count |-> no_count]

----------------------------------------------------------------------------

(* app/models/trader.py and app/brain/scorer.py.  win_rate, roi_30d,       *)
(* max_drawdown, consistency and diversity_score are in hundredths; a      *)
(* sub-score is in 1/SubScale of a point and a score in 1/ScoreScale of a  *)
(* point, which keeps every interpolation on the hundredths grid exact     *)

SubScale == 30

ScoreScale == 3000

WIN_RATE_EXCELLENT == 65

WIN_RATE_GOOD == 55

WIN_RATE_MIN == 45

ROI_EXCELLENT == 30

ROI_GOOD == 15

ROI_MIN == 5

TRADES_EXCELLENT == 100

TRADES_GOOD == 50

TRADES_MIN == 20

DRAWDOWN_EXCELLENT == 10

DRAWDOWN_GOOD == 20

DRAWDOWN_MAX == 40

(* TraderScorer.WEIGHTS, in hundredths *)
WEIGHTS ==
    [win_rate |-> 25, roi |-> 20, trade_count |-> 15, max_drawdown |-> 15,
     consistency |-> 15, diversity |-> 10]

(* TraderStats(...) *)
TraderStats(win_rate, roi_30d, trade_count, max_drawdown, consistency, diversity_score) ==
    [win_rate |-> win_rate, roi_30d |-> roi_30d, trade_count |-> trade_count,
     max_drawdown |-> max_drawdown, consistency |-> consistency,
     diversity_score |-> diversity_score]

(* Trader(address=..., stats=..., score=..., heat_level=...) *)
NewTrader(address, trader_stats, score, heat_level) ==
    [address |-> address, stats |-> trader_stats, score |-> score,
     heat_level |-> heat_level]

(* Trader.update_heat_level *)
update_heat_level(trader) ==
    [trader EXCEPT !.heat_level = IF trader.score >= 70 * ScoreScale THEN "hot"
                                  ELSE IF trader.score >= 50 * ScoreScale THEN "warm"
                                  ELSE "cold"]

(* TraderScorer._score_win_rate *)
score_win_rate(win_rate) ==
    IF win_rate >= WIN_RATE_EXCELLENT THEN 100 * SubScale
    ELSE IF win_rate >= WIN_RATE_GOOD
    THEN 60 * SubScale + ((win_rate - WIN_RATE_GOOD) * 40 * SubScale)
                             \div (WIN_RATE_EXCELLENT - WIN_RATE_GOOD)
    ELSE IF win_rate >= WIN_RATE_MIN
    THEN 30 * SubScale + ((win_rate - WIN_RATE_MIN) * 30 * SubScale)
                             \div (WIN_RATE_GOOD - WIN_RATE_MIN)
    ELSE (win_rate * 30 * SubScale) \div WIN_RATE_MIN

(* TraderScorer._score_roi *)
score_roi(roi) ==
    IF roi <= 0 THEN Max(0, (20 + roi) * SubScale)
    ELSE IF roi >= ROI_EXCELLENT THEN 100 * SubScale
    ELSE IF roi >= ROI_GOOD
    THEN 70 * SubScale + ((roi - ROI_GOOD) * 30 * SubScale)
                             \div (ROI_EXCELLENT - ROI_GOOD)
    ELSE IF roi >= ROI_MIN
    THEN 40 * SubScale + ((roi - ROI_MIN) * 30 * SubScale)
                             \div (ROI_GOOD - ROI_MIN)
    ELSE 20 * SubScale + (roi * 20 * SubScale) \div ROI_MIN

(* TraderScorer._score_trade_count *)
score_trade_count(count) ==
    IF count >= TRADES_EXCELLENT THEN 100 * SubScale
    ELSE IF count >= TRADES_GOOD
    THEN 60 * SubScale + ((count - TRADES_GOOD) * 40 * SubScale)
                             \div (TRADES_EXCELLENT - TRADES_GOOD)
    ELSE IF count >= TRADES_MIN
    THEN 30 * SubScale + ((count - TRADES_MIN) * 30 * SubScale)
                             \div (TRADES_GOOD - TRADES_MIN)
    ELSE (count * 30 * SubScale) \div TRADES_MIN

(* _score_drawdown interpolating from the wrong end between 10% and 20% *)
score_drawdown_from_excellent(drawdown) ==
    IF drawdown <= DRAWDOWN_EXCELLENT THEN 100 * SubScale
    ELSE IF drawdown <= DRAWDOWN_GOOD
    THEN 70 * SubScale + ((drawdown - DRAWDOWN_EXCELLENT) * 30 * SubScale)
                             \div (DRAWDOWN_GOOD - DRAWDOWN_EXCELLENT)
    ELSE IF drawdown <= DRAWDOWN_MAX
    THEN 30 * SubScale + ((DRAWDOWN_MAX - drawdown) * 40 * SubScale)
                             \div (DRAWDOWN_MAX - DRAWDOWN_GOOD)
    ELSE Max(0, (30 - (drawdown - DRAWDOWN_MAX)) * SubScale)

(* TraderScorer._score_drawdown *)
score_drawdown(drawdown) ==
    IF drawdown <= DRAWDOWN_EXCELLENT THEN 100 * SubScale
    ELSE IF drawdown <= DRAWDOWN_GOOD
    THEN 70 * SubScale + ((DRAWDOWN_GOOD - drawdown) * 30 * SubScale)
                             \div (DRAWDOWN_GOOD - DRAWDOWN_EXCELLENT)
    ELSE IF drawdown <= DRAWDOWN_MAX
    THEN 30 * SubScale + ((DRAWDOWN_MAX - drawdown) * 40 * SubScale)
                             \div (DRAWDOWN_MAX - DRAWDOWN_GOOD)
    ELSE Max(0, (30 - (drawdown - DRAWDOWN_MAX)) * SubScale)

(* TraderScorer._score_consistency *)
score_consistency(consistency) == consistency * SubScale

(* TraderScorer._score_diversity *)
score_diversity(diversity) == diversity * SubScale

(* calculate_score: the weighted sum clamped to 0..100 *)
final_score(trader_stats) ==
    LET total_score ==
            score_win_rate(trader_stats.win_rate) * WEIGHTS.win_rate
            + score_roi(trader_stats.roi_30d) * WEIGHTS.roi
            + score_trade_count(trader_stats.trade_count) * WEIGHTS.trade_count
            + score_drawdown(trader_stats.max_drawdown) * WEIGHTS.max_drawdown
            + score_consistency(trader_stats.consistency) * WEIGHTS.consistency
            + score_diversity(trader_stats.diversity_score) * WEIGHTS.diversity
    IN  Min(Max(total_score, 0), 100 * ScoreScale)

(* calculate_score setting the heat level before it writes the score *)
calculate_score_heat_first(trader) ==
    [update_heat_level(trader) EXCEPT !.score = final_score(trader.stats)]

(* TraderScorer.calculate_score: the trader with score and heat_level      *)
(* written                                                                 *)
calculate_score(trader) ==
    update_heat_level([trader EXCEPT !.score = final_score(trader.stats)])

----------------------------------------------------------------------------

(* app/brain/ranker.py.  _traders is a dict: a sequence of Trader records  *)
(* in insertion order, one per address                                     *)

Addresses(trader_seq) == {trader_seq[i].address : i \in DOMAIN trader_seq}

(* self._traders[address] *)
TraderAt(trader_seq, address) ==
    trader_seq[CHOOSE i \in DOMAIN trader_seq : trader_seq[i].address = address]

(* the assignment moving a known key behind every other key *)
UpsertMovingToEnd(trader_seq, trader) ==
    Append(SelectSeq(trader_seq, LAMBDA t : t.address # trader.address), trader)

(* self._traders[trader.address] = trader: a known key keeps its place *)
Upsert(trader_seq, trader) ==
    IF trader.address \in Addresses(trader_seq)
    THEN [i \in DOMAIN trader_seq |->
            IF trader_seq[i].address = trader.address THEN trader
            ELSE trader_seq[i]]
    ELSE Append(trader_seq, trader)

(* del self._traders[address] *)
Without(trader_seq, address) ==
    SelectSeq(trader_seq, LAMBDA t : t.address # address)

(* one step of a stable descending sort: t goes behind every trader whose  *)
(* score is not below its own                                              *)
InsertByScore(sorted, t) ==
    LET ahead == SelectSeq(sorted, LAMBDA u : u.score >= t.score)
        behind == SelectSeq(sorted, LAMBDA u : u.score < t.score)
    IN  ahead \o <<t>> \o behind

(* sorted(self._traders.values(), key=lambda t: t.score, reverse=True) *)
RECURSIVE SortedByScore(_)
SortedByScore(trader_seq) ==
    IF trader_seq = << >> THEN << >>
    ELSE InsertByScore(SortedByScore(SubSeq(trader_seq, 1, Len(trader_seq) - 1)),
                       trader_seq[Len(trader_seq)])

(* _update_rankings sorting by rising score *)
update_rankings_ascending(trader_seq) ==
    LET sorted == SortedByScore(trader_seq)
    IN  [i \in DOMAIN sorted |-> sorted[Len(sorted) + 1 - i].address]

(* TraderRanker._update_rankings: the ranking of the given traders *)
update_rankings(trader_seq) ==
    LET sorted == SortedByScore(trader_seq)
    IN  [i \in DOMAIN sorted |-> sorted[i].address]

(* add_trader, add_traders: "if trader.score == 0: calculate_score" *)
Scored(trader) == IF trader.score = 0 THEN calculate_score(trader) ELSE trader

(* TraderRanker.add_trader *)
add_trader(trader) ==
    /\ traders' = Upsert(traders, Scored(trader))
    /\ rankings' = update_rankings(traders')

(* add_traders: the loop over the list *)
RECURSIVE UpsertAll(_, _)
UpsertAll(trader_seq, new_traders) ==
    IF new_traders = << >> THEN trader_seq
    ELSE UpsertAll(Upsert(trader_seq, Scored(Head(new_traders))),
                   Tail(new_traders))

(* TraderRanker.add_traders *)
add_traders(new_traders) ==
    /\ traders' = UpsertAll(traders, new_traders)
    /\ rankings' = update_rankings(traders')

(* TraderRanker.remove_trader; an unknown address changes nothing *)
remove_trader(address) ==
    IF address \in Addresses(traders)
    THEN /\ traders' = Without(traders, address)
         /\ rankings' = update_rankings(traders')
    ELSE UNCHANGED <<traders, rankings>>

(* TraderRanker.update_scores *)
update_scores ==
    /\ traders' = [i \in DOMAIN traders |-> calculate_score(traders[i])]
    /\ rankings' = update_rankings(traders')

(* TraderRanker.get_top *)
get_top(n) ==
    LET first == SubSeq(rankings, 1, Min(n, Len(rankings)))
        tracked == SelectSeq(first, LAMBDA a : a \in Addresses(traders))
    IN  [i \in DOMAIN tracked |-> TraderAt(traders, tracked[i])]

----------------------------------------------------------------------------

(* app/engine/sizer.py *)

SIZER_HIGH_CONFIDENCE == 90

SIZER_MEDIUM_CONFIDENCE == 70

SIZER_LOW_CONFIDENCE == 50

(* 1.0 as a product of two hundredths *)
PercentScale == 10000

(* round(x, 2) of an amount given in 1/PercentScale of a cent *)
RoundPercentCents(a, tie_up) ==
    LET q == a \div PercentScale
        r == a % PercentScale
    IN  IF 2 * r > PercentScale \/ (2 * r = PercentScale /\ tie_up)
        THEN q + 1 ELSE q

(* DynamicSizer.calculate: base_percent * consensus_multiplier capped at   *)
(* max_percent, in 1/PercentScale                                          *)
SizerPercent(score, consensus) ==
    LET base_percent == IF score >= SIZER_HIGH_CONFIDENCE THEN 40
                        ELSE IF score >= SIZER_MEDIUM_CONFIDENCE THEN 25
                        ELSE IF score >= SIZER_LOW_CONFIDENCE THEN 10
                        ELSE 5
        consensus_multiplier == 100 + Min((consensus - 1) * 25, 50)
    IN  Min(base_percent * consensus_multiplier, MaxTradePercent * 100)

(* DynamicSizer.calculate, balance, min_amount and result in cents *)
sizer_calculate(bal, score, consensus, min_amount, tie_up) ==
    LET amount == bal * SizerPercent(score, consensus)
        floored == Max(amount, min_amount * PercentScale)
        capped == Min(Min(floored, bal * MaxTradePercent * 100),
                      bal * PercentScale)
    IN  RoundPercentCents(capped, tie_up)

----------------------------------------------------------------------------

(* round(n / d, k) for n >= 0 and d > 0, as an integer in units of 10^-k;  *)
(* a tie goes where the binary float happens to lie                        *)
RoundDiv(n, d, tie_up) ==
    LET q == n \div d
        r == n % d
    IN  IF 2 * r > d \/ (2 * r = d /\ tie_up) THEN q + 1 ELSE q

(* DynamicSizer.calculate_risk_reward, entry_price in hundredths: the      *)
(* percentages in tenths of a percent, the ratio in hundredths; a division *)
(* by 0.0 raises ZeroDivisionError                                         *)
calculate_risk_reward(entry_price, side, tie_up) ==
    LET divisor == IF side = "YES" THEN entry_price ELSE 100 - entry_price
    IN  IF divisor = 0
        THEN [raised |-> Some("ZeroDivisionError"), result |-> None]
        ELSE [raised |-> None,
              result |-> Some(
                 [potential_profit_percent |->
                      RoundDiv((100 - divisor) * 1000, divisor, tie_up),
                  potential_loss_percent |-> 1000,
                  risk_reward_ratio |->
                      RoundDiv((100 - divisor) * 100, divisor, tie_up),
                  entry_price |-> entry_price,
                  side |-> side])]

----------------------------------------------------------------------------

(* The Simulator driven through its public operations *)

TradeIds == 1 .. MaxTrades

Outcomes == {"YES", "NO", "None"}

(* random.uniform(0.005, 0.03): the ends of the range *)
BaseSlippages == {50, 300}

(* save_trade returns, or raises *)
SaveOutcomes == {TRUE, FALSE}

SimInitialBalances == {Some(400)}

SimAmounts == {300}

SimSignals ==
    [whale_address : {"w1"}, market_id : {1}, side : Sides, price : {60}]

FinalPrices == {10000, 990000}

NoCycle == [signals |-> << >>, opened |-> << >>]

(* the state after PaperTrader(initial_arg) and CopyDecider() on an empty  *)
(* store                                                                   *)
InitWith(initial_args) ==
    /\ now = 0
    /\ next_id = 1
    /\ db_trades = EmptyMap
    /\ db_balance = << >>
    /\ \E arg \in initial_args :
         LET p == PaperTraderInit(arg, db_trades, db_balance, TRUE)
         IN  /\ balance = p.balance
             /\ initial_balance = p.initial_balance
             /\ positions = p.positions
             /\ trade_history = p.trade_history
             /\ stats = p.stats
             /\ balance_history = p.balance_history
    /\ recent_decisions = EmptyMap
    /\ open_positions = EmptyMap
    /\ cycle = NoCycle
    /\ traders = << >>
    /\ rankings = << >>
    /\ last = [op |-> "init"]

Init == InitWith(SimInitialBalances)

Execute(save_outcomes) ==
    \E signal \in SimSignals, should_copy \in BOOLEAN, amount \in SimAmounts,
       base_slippage \in BaseSlippages, save_ok \in save_outcomes :
        LET decision == Decision(should_copy, amount, "api", 0, 1)
        IN  /\ execute_trade(signal, decision, base_slippage, save_ok)
            /\ last' = [op |-> "execute", decision |-> decision,
                        balance_before |-> balance,
                        result |-> ExecuteResult(signal, decision, base_slippage)]
            /\ UNCHANGED <<deciderVars, now, cycle, rankerVars>>

Close ==
    \E trade_id \in TradeIds, final_price \in FinalPrices, outcome \in Outcomes :
        /\ close_position(trade_id, final_price, outcome)
        /\ last' = [op |-> "close", trade_id |-> trade_id,
                    final_price |-> final_price, outcome |-> outcome,
                    result |-> CloseResult(trade_id, final_price, outcome)]
        /\ UNCHANGED <<deciderVars, dbVars, now, next_id, cycle, rankerVars>>

Cancel ==
    \E trade_id \in TradeIds :
        /\ cancel_position(trade_id)
        /\ last' = [op |-> "cancel", trade_id |-> trade_id,
                    result |-> CancelResult(trade_id)]
        /\ UNCHANGED <<deciderVars, dbVars, now, next_id, cycle, rankerVars>>

Reset ==
    /\ reset
    /\ last' = [op |-> "reset"]
    /\ UNCHANGED <<deciderVars, dbVars, now, next_id, cycle, rankerVars>>

Next == Execute({TRUE}) \/ Close \/ Cancel \/ Reset

Spec == Init /\ [][Next]_vars

(* execute_trade over the whole range of signal prices, with amounts from  *)
(* nothing to one cent more than the balance                               *)

SlippagePrices == {0, 1, 60, 99, 100}

SlippageSignals ==
    [whale_address : {"w1"}, market_id : {1}, side : Sides, price : SlippagePrices]

ExecuteAtPrice ==
    \E signal \in SlippageSignals, should_copy \in BOOLEAN,
       amount \in {0, 150, balance, balance + 1},
       base_slippage \in BaseSlippages :
        LET decision == Decision(should_copy, amount, "api", 0, 1)
        IN  /\ execute_trade(signal, decision, base_slippage, TRUE)
            /\ last' = [op |-> "execute", signal |-> signal, decision |-> decision,
                        balance_before |-> balance,
                        result |-> ExecuteResult(signal, decision, base_slippage)]
            /\ UNCHANGED <<deciderVars, now, cycle, rankerVars>>

SlippageNext == ExecuteAtPrice

SlippageSpec == Init /\ [][SlippageNext]_vars

----------------------------------------------------------------------------
(* The Decider driven through its public operations *)

Markets == {1, 2}

DeciderScores == {40, 50, 95}

DeciderBalances == {99, 100, 101, 100000}

DeciderMarkets == {None, Some([liquidity |-> 500])}

DeciderSignals ==
    [whale_address : {"w1"}, market_id : Markets, side : {"YES"}, price : {60}]

OtherSignals ==
    {<< >>,
     <<[whale_address |-> "w2", market_id |-> 1, side |-> "YES", price |-> 60],
       [whale_address |-> "w3", market_id |-> 1, side |-> "YES", price |-> 60]>>}

(* the clock moves on by one of the steps *)
Tick(steps) ==
    /\ \E step \in steps :
         /\ now + step <= MaxTime
         /\ now' = now + step
    /\ last' = [op |-> "tick"]
    /\ UNCHANGED <<simVars, deciderVars, dbVars, next_id, cycle, rankerVars>>

(* one call of decide with inputs drawn from the given sets *)
DecideWith(scores, balances, markets, other_signals) ==
    \E signal \in DeciderSignals, score \in scores, bal \in balances,
       market \in markets, others \in other_signals, tie_up \in BOOLEAN :
        LET whale == [address |-> signal.whale_address, score |-> score]
        IN  /\ decide(signal, whale, bal, market, others, tie_up)
            /\ last' = [op |-> "decide", market_id |-> signal.market_id,
                        score |-> score, balance |-> bal,
                        market |-> market, others |-> others,
                        decision |-> DecideResult(signal, whale, bal, market,
                                                  others, tie_up)]
            /\ UNCHANGED <<simVars, dbVars, now, next_id, cycle, rankerVars>>

Decide == DecideWith(DeciderScores, DeciderBalances, DeciderMarkets, OtherSignals)

RegisterPosition ==
    \E market_id \in Markets, trade_id \in TradeIds :
        /\ register_position(market_id, trade_id)
        /\ last' = [op |-> "register", market_id |-> market_id]
        /\ UNCHANGED <<simVars, dbVars, now, next_id, cycle, rankerVars>>

DeciderClosePosition ==
    \E market_id \in Markets :
        /\ decider_close_position(market_id)
        /\ last' = [op |-> "release", market_id |-> market_id]
        /\ UNCHANGED <<simVars, dbVars, now, next_id, cycle, rankerVars>>

ClearCooldowns ==
    /\ clear_cooldowns
    /\ last' = [op |-> "clear_cooldowns"]
    /\ UNCHANGED <<simVars, dbVars, now, next_id, cycle, rankerVars>>

(* to just inside and to just outside a cooldown window *)
DeciderTicks == {CooldownMinutes - 1, CooldownMinutes}

DeciderNext ==
    \/ Decide
    \/ RegisterPosition
    \/ DeciderClosePosition
    \/ ClearCooldowns
    \/ Tick(DeciderTicks)

DeciderSpec == Init /\ [][DeciderNext]_vars

----------------------------------------------------------------------------
(* The sizing rules applied to inputs of every tier: the Decider's own     *)
(* rule through decide, DynamicSizer.calculate directly                    *)

SizerBalances == {0, 100, 101, 150, 200, 250, 1000, 100000}

SizerScores == {40, 50, 70, 90}

SizerConsensus == 1 .. 4

Calculate ==
    \E bal \in SizerBalances, score \in SizerScores,
       consensus \in SizerConsensus, tie_up \in BOOLEAN :
        /\ last' = [op |-> "calculate", balance |-> bal, score |-> score,
                    consensus |-> consensus,
                    amount |-> sizer_calculate(bal, score, consensus, Dollar,
                                               tie_up)]
        /\ UNCHANGED <<simVars, deciderVars, dbVars, now, next_id, cycle, rankerVars>>

SizingNext == Decide \/ Calculate

SizingSpec == Init /\ [][SizingNext]_vars

----------------------------------------------------------------------------

(* decide over the whole range of its final-score computation: scores up   *)
(* to 100, zero to four consenting whales among signals that do not count, *)
(* liquidity on both sides of 1000                                         *)

ScoreInputs == {50, 65, 75, 95, 100}

ScoreBalances == {100000}

ScoreMarkets ==
    {None} \cup {Some([liquidity |-> l]) : l \in {0, 999, 1000}}

(* w2..w5 agree with w1's YES on market 1; the others do not count *)
Consenting(w) ==
    [whale_address |-> w, market_id |-> 1, side |-> "YES", price |-> 60]

ScoreOthers ==
    {<< >>,
     <<Consenting("w2")>>,
     <<Consenting("w2"), Consenting("w3")>>,
     <<Consenting("w2"), Consenting("w3"), Consenting("w4")>>,
     <<Consenting("w2"), Consenting("w3"), Consenting("w4"), Consenting("w5")>>,
     <<Consenting("w1"),
       [whale_address |-> "w2", market_id |-> 1, side |-> "NO", price |-> 60],
       [whale_address |-> "w3", market_id |-> 2, side |-> "YES", price |-> 60]>>}

ScoreNext ==
    \/ DecideWith(ScoreInputs, ScoreBalances, ScoreMarkets, ScoreOthers)
    \/ ClearCooldowns

ScoreSpec == Init /\ [][ScoreNext]_vars

----------------------------------------------------------------------------

(* decide with other signals in which one whale appears more than once *)

RepeatedOthers ==
    {<< >>,
     <<Consenting("w2")>>,
     <<Consenting("w2"), Consenting("w2")>>,
     <<Consenting("w2"), Consenting("w3")>>,
     <<Consenting("w2"), Consenting("w2"), Consenting("w3")>>}

RepeatedNext ==
    \/ DecideWith(ScoreInputs, ScoreBalances, ScoreMarkets, RepeatedOthers)
    \/ ClearCooldowns

RepeatedSpec == Init /\ [][RepeatedNext]_vars

----------------------------------------------------------------------------

(* decide under a min_whale_score at and below MIN_SCORE_TO_COPY, so that  *)
(* each of its gates can be the first to fail                              *)

GateMinScores == {40, MinWhaleScore}

GateScores == {35, 45, 95}

GateBalances == {99, 100000}

DecideAt ==
    \E min_whale_score \in GateMinScores, signal \in DeciderSignals,
       score \in GateScores, bal \in GateBalances, market \in DeciderMarkets,
       others \in OtherSignals, tie_up \in BOOLEAN :
        LET whale == [address |-> signal.whale_address, score |-> score]
            decision == DecideResultAt(min_whale_score, signal, whale, bal,
                                       market, others, tie_up)
        IN  /\ recent_decisions' = DecideCooldowns(signal, decision)
            /\ UNCHANGED open_positions
            /\ last' = [op |-> "decide", market_id |-> signal.market_id,
                        min_whale_score |-> min_whale_score,
                        score |-> score, balance |-> bal,
                        market |-> market, others |-> others,
                        decision |-> decision]
            /\ UNCHANGED <<simVars, dbVars, now, next_id, cycle, rankerVars>>

GateNext ==
    \/ DecideAt
    \/ RegisterPosition
    \/ DeciderClosePosition
    \/ ClearCooldowns
    \/ Tick(DeciderTicks)

GateSpec == Init /\ [][GateNext]_vars

----------------------------------------------------------------------------

(* get_consensus_for_market on signal lists of up to MaxConsensusSignals   *)
(* signals over two markets, on a Decider that holds positions             *)

MaxConsensusSignals == 3

ConsensusWhales == <<"w1", "w2", "w3", "w4">>

ConsensusSignals ==
    UNION {[1 .. n -> [market_id : Markets, side : Sides]] :
              n \in 0 .. MaxConsensusSignals}

GetConsensus ==
    \E market_id \in Markets, picks \in ConsensusSignals :
        LET signals == [i \in 1 .. Len(picks) |->
                          [whale_address |-> ConsensusWhales[i],
                           market_id |-> picks[i].market_id,
                           side |-> picks[i].side, price |-> 60]]
        IN  /\ last' = [op |-> "consensus", market_id |-> market_id,
                        signals |-> signals,
                        result |-> get_consensus_for_market(market_id, signals)]
            /\ UNCHANGED <<simVars, deciderVars, dbVars, now, next_id, cycle, rankerVars>>

ConsensusNext == GetConsensus \/ RegisterPosition \/ DeciderClosePosition

ConsensusSpec == Init /\ [][ConsensusNext]_vars

----------------------------------------------------------------------------

(* TraderScorer.calculate_score applied to statistics between and on its   *)
(* breakpoints                                                             *)

ScorerStats ==
    {TraderStats(w, r, c, d, k, v) :
        w \in {0, 50, 100}, r \in {-30, 10, 40}, c \in {0, 35, 110},
        d \in {0, 30, 100}, k \in {0, 100}, v \in {0, 100}}

(* statistics that score exactly 70, 69.9, 50 and 49.9 *)
ThresholdStats ==
    {TraderStats(55, 30, 100, 10, 20, 20), TraderStats(55, 30, 100, 10, 20, 19),
     TraderStats(45, 15, 50, 20, 40, 30), TraderStats(45, 15, 50, 20, 40, 29)}

(* the trader before the call: fresh, or carrying an earlier score with    *)
(* or without its heat level                                               *)
ScoredBefore ==
    {[score |-> 0, heat_level |-> "cold"],
     [score |-> 85 * ScoreScale, heat_level |-> "hot"],
     [score |-> 85 * ScoreScale, heat_level |-> "cold"]}

Score ==
    \E trader_stats \in ScorerStats \cup ThresholdStats, b \in ScoredBefore :
        LET trader == NewTrader("a", trader_stats, b.score, b.heat_level)
        IN  /\ last' = [op |-> "score", stats |-> trader_stats,
                        before |-> trader,
                        trader |-> calculate_score(trader)]
            /\ UNCHANGED <<simVars, deciderVars, dbVars, now, next_id, cycle,
                           rankerVars>>

ScorerNext == Score

ScorerSpec == Init /\ [][ScorerNext]_vars

----------------------------------------------------------------------------

(* DynamicSizer.calculate_risk_reward over every entry price from 0.00 to  *)
(* 1.00 and both sides                                                     *)

RiskPrices == 0 .. 100

RiskReward ==
    \E entry_price \in RiskPrices, side \in Sides, tie_up \in BOOLEAN :
        /\ last' = [op |-> "risk_reward", entry_price |-> entry_price,
                    side |-> side,
                    outcome |-> calculate_risk_reward(entry_price, side,
                                                      tie_up)]
        /\ UNCHANGED <<simVars, deciderVars, dbVars, now, next_id, cycle,
                       rankerVars>>

RiskNext == RiskReward

RiskSpec == Init /\ [][RiskNext]_vars

----------------------------------------------------------------------------

(* execute_trade followed at once by close_position at the trade's own     *)
(* entry price, without an outcome                                         *)

RoundTripSignals ==
    [whale_address : {"w1"}, market_id : {1}, side : Sides, price : {1, 60, 99}]

RoundTripAmounts == {100, 300}

OpenTrade ==
    \E signal \in RoundTripSignals, amount \in RoundTripAmounts,
       base_slippage \in BaseSlippages :
        LET decision == Decision(TRUE, amount, "api", 0, 1)
        IN  /\ execute_trade(signal, decision, base_slippage, TRUE)
            /\ last' = [op |-> "execute", decision |-> decision,
                        balance_before |-> balance,
                        result |-> ExecuteResult(signal, decision, base_slippage)]
            /\ UNCHANGED <<deciderVars, now, cycle, rankerVars>>

CloseAtEntry ==
    /\ last.op = "execute"
    /\ last.result # None
    /\ LET trade == Val(last.result)
       IN  /\ close_position(trade.id, trade.entry_price, "None")
           /\ last' = [op |-> "round_trip", opened |-> trade,
                       balance_before |-> last.balance_before,
                       result |-> CloseResult(trade.id, trade.entry_price, "None")]
    /\ UNCHANGED <<deciderVars, dbVars, now, next_id, cycle, rankerVars>>

RoundTripNext == OpenTrade \/ CloseAtEntry

RoundTripSpec == Init /\ [][RoundTripNext]_vars

----------------------------------------------------------------------------

(* The Ranker driven through its public operations, with traders that     *)
(* arrive unscored (score 0) and traders that arrive with a score          *)

RankerAddresses == {"a", "b", "c"}

(* statistics that score 23.4, 59.5 and 96.5 *)
RankerStats ==
    {TraderStats(40, 0, 10, 50, 30, 30),
     TraderStats(55, 10, 50, 20, 60, 50),
     TraderStats(70, 35, 120, 5, 90, 80)}

(* Trader(...) as a caller builds it: score 0 and heat_level "cold" by     *)
(* default, or a score given with or without its heat_level                *)
RankerTraders ==
    {NewTrader(a, s, 0, "cold") : a \in RankerAddresses, s \in RankerStats}
    \cup {NewTrader(a, TraderStats(70, 35, 120, 5, 90, 80), 85 * ScoreScale, h) :
             a \in RankerAddresses, h \in {"cold", "hot"}}

RankerBatches ==
    {<<x, y>> : x \in {t \in RankerTraders : t.address = "a"},
                y \in {t \in RankerTraders : t.address \in {"a", "b"}}}

MaxTop == 4

AddTrader ==
    \E trader \in RankerTraders :
        /\ add_trader(trader)
        /\ last' = [op |-> "add", address |-> trader.address,
                    tracked |-> trader.address \in Addresses(traders)]
        /\ UNCHANGED <<simVars, deciderVars, dbVars, now, next_id, cycle>>

AddTraders ==
    \E batch \in RankerBatches :
        /\ add_traders(batch)
        /\ last' = [op |-> "add_all"]
        /\ UNCHANGED <<simVars, deciderVars, dbVars, now, next_id, cycle>>

RemoveTrader ==
    \E address \in RankerAddresses :
        /\ remove_trader(address)
        /\ last' = [op |-> "remove", address |-> address,
                    result |-> address \in Addresses(traders)]
        /\ UNCHANGED <<simVars, deciderVars, dbVars, now, next_id, cycle>>

UpdateScores ==
    /\ update_scores
    /\ last' = [op |-> "rescan"]
    /\ UNCHANGED <<simVars, deciderVars, dbVars, now, next_id, cycle>>

GetTop ==
    \E n \in 0 .. MaxTop :
        /\ last' = [op |-> "top", n |-> n, result |-> get_top(n)]
        /\ UNCHANGED <<simVars, deciderVars, dbVars, now, next_id, cycle,
                       rankerVars>>

RankerNext ==
    \/ AddTrader
    \/ AddTraders
    \/ RemoveTrader
    \/ UpdateScores
    \/ GetTop

RankerSpec == Init /\ [][RankerNext]_vars

----------------------------------------------------------------------------

(* app/main.py: the monitor cycle and the HTTP handlers *)

MaxSignals == 2

FeedSignals ==
    {[whale_address |-> "w1", market_id |-> 1, side |-> "YES", price |-> 60],
     [whale_address |-> "w2", market_id |-> 1, side |-> "NO", price |-> 60],
     [whale_address |-> "w1", market_id |-> 2, side |-> "YES", price |-> 60]}

FeedBatches ==
    UNION {[1 .. n -> FeedSignals] : n \in 1 .. MaxSignals}

(* ranker.get_trader: the tracked trader, or None *)
RankerLookups(address) ==
    {None} \cup {Some([address |-> address, score |-> sc]) : sc \in {40, 95}}

(* random.uniform(0.3, 0.7) *)
SimulatePrices == {50}

(* f"0x{uuid4()}": a market id no signal of the feed carries *)
FreshMarket == 100 + next_id

MainInit == InitWith({None})

(* monitor_whales: detect_whale_trades returns one of the given batches    *)
(* as the signals of a cycle                                               *)
MonitorFetchFrom(batches) ==
    /\ cycle.signals = << >>
    /\ UNCHANGED rankerVars
    /\ \E batch \in batches : cycle' = [signals |-> batch, opened |-> << >>]
    /\ last' = [op |-> "fetch"]
    /\ UNCHANGED <<simVars, deciderVars, dbVars, now, next_id>>

(* monitor_whales: detect_whale_trades returns the signals of a cycle *)
MonitorFetch == MonitorFetchFrom(FeedBatches)

(* the loop body cancelled between execute_trade and register_position *)
MonitorSignalCancelled(save_outcomes, slippages) ==
    /\ cycle.signals # << >>
    /\ UNCHANGED rankerVars
    /\ LET signal == Head(cycle.signals)
       IN  \E whale \in RankerLookups(signal.whale_address),
              base_slippage \in slippages, save_ok \in save_outcomes,
              tie_up \in BOOLEAN :
            IF whale = None
            THEN /\ cycle' = [cycle EXCEPT !.signals = Tail(@)]
                 /\ last' = [op |-> "monitor", market_id |-> signal.market_id,
                             should_copy |-> FALSE, consensus_count |-> 0,
                             result |-> None]
                 /\ UNCHANGED <<simVars, deciderVars, dbVars, now, next_id>>
            ELSE LET decision == DecideResult(signal, Val(whale), balance, None,
                                              << >>, tie_up)
                     result == ExecuteResult(signal, decision, base_slippage)
                     opened == decision.should_copy /\ result # None
                 IN  /\ recent_decisions' = DecideCooldowns(signal, decision)
                     /\ IF decision.should_copy
                        THEN execute_trade(signal, decision, base_slippage, save_ok)
                        ELSE UNCHANGED <<simVars, dbVars, next_id>>
                     /\ open_positions' = open_positions
                     /\ cycle' = [signals |-> Tail(cycle.signals),
                                  opened |-> IF opened
                                             THEN Append(cycle.opened, signal.market_id)
                                             ELSE cycle.opened]
                     /\ last' = [op |-> "monitor", market_id |-> signal.market_id,
                                 should_copy |-> decision.should_copy,
                                 consensus_count |-> decision.consensus_count,
                                 result |-> IF opened THEN result ELSE None]
                     /\ UNCHANGED now

(* monitor_whales: the body of "for signal in signals", which runs without *)
(* a suspension point from decide to register_position                    *)
MonitorSignal(save_outcomes, slippages) ==
    /\ cycle.signals # << >>
    /\ UNCHANGED rankerVars
    /\ LET signal == Head(cycle.signals)
       IN  \E whale \in RankerLookups(signal.whale_address),
              base_slippage \in slippages, save_ok \in save_outcomes,
              tie_up \in BOOLEAN :
            IF whale = None
            THEN /\ cycle' = [cycle EXCEPT !.signals = Tail(@)]
                 /\ last' = [op |-> "monitor", market_id |-> signal.market_id,
                             should_copy |-> FALSE, consensus_count |-> 0,
                             result |-> None]
                 /\ UNCHANGED <<simVars, deciderVars, dbVars, now, next_id>>
            ELSE LET decision == DecideResult(signal, Val(whale), balance, None,
                                              << >>, tie_up)
                     result == ExecuteResult(signal, decision, base_slippage)
                     opened == decision.should_copy /\ result # None
                 IN  /\ recent_decisions' = DecideCooldowns(signal, decision)
                     /\ IF decision.should_copy
                        THEN execute_trade(signal, decision, base_slippage, save_ok)
                        ELSE UNCHANGED <<simVars, dbVars, next_id>>
                     /\ open_positions' =
                            IF opened
                            THEN Registered(Val(result).market_id, Val(result).id)
                            ELSE open_positions
                     /\ cycle' = [signals |-> Tail(cycle.signals),
                                  opened |-> IF opened
                                             THEN Append(cycle.opened, signal.market_id)
                                             ELSE cycle.opened]
                     /\ last' = [op |-> "monitor", market_id |-> signal.market_id,
                                 should_copy |-> decision.should_copy,
                                 consensus_count |-> decision.consensus_count,
                                 result |-> IF opened THEN result ELSE None]
                     /\ UNCHANGED now

(* simulate_trade: POST /api/simulate *)
ApiSimulate(save_outcomes) ==
    \E side \in Sides, price \in SimulatePrices, base_slippage \in BaseSlippages,
       save_ok \in save_outcomes :
        LET signal == [whale_address |-> "w1", market_id |-> FreshMarket,
                       side |-> side, price |-> price]
            decision == Decision(TRUE, balance \div 10, "simulate", 95, 1)
            result == ExecuteResult(signal, decision, base_slippage)
        IN  /\ execute_trade(signal, decision, base_slippage, save_ok)
            /\ open_positions' =
                   IF result # None
                   THEN Registered(Val(result).market_id, Val(result).id)
                   ELSE open_positions
            /\ last' = [op |-> "simulate", decision |-> decision, result |-> result]
            /\ UNCHANGED <<recent_decisions, now, cycle, rankerVars>>

(* reset_paper_trading: POST /api/reset *)
ApiReset ==
    /\ reset
    /\ clear_cooldowns
    /\ last' = [op |-> "api_reset"]
    /\ UNCHANGED <<dbVars, now, next_id, cycle, rankerVars>>

(* past a cooldown window *)
MainTicks == {CooldownMinutes}

MainNext ==
    \/ MonitorFetch
    \/ MonitorSignal({TRUE}, BaseSlippages)
    \/ ApiSimulate({TRUE})
    \/ ApiReset
    \/ Tick(MainTicks)

MainSpec == MainInit /\ [][MainNext]_vars

----------------------------------------------------------------------------
(* The pipeline with settlement: a caller that closes or cancels a         *)
(* Simulator position and then tells the Decider                           *)

SettleClose ==
    \E trade_id \in TradeIds, outcome \in {"YES", "NO"} :
        LET result == CloseResult(trade_id, PriceScale \div 2, outcome)
        IN  /\ close_position(trade_id, PriceScale \div 2, outcome)
            /\ open_positions' = IF result # None
                                 THEN Released(Val(result).market_id)
                                 ELSE open_positions
            /\ last' = [op |-> "settle_close", trade_id |-> trade_id,
                        result |-> result]
            /\ UNCHANGED <<recent_decisions, dbVars, now, next_id, cycle, rankerVars>>

SettleCancel ==
    \E trade_id \in TradeIds :
        LET result == CancelResult(trade_id)
        IN  /\ cancel_position(trade_id)
            /\ open_positions' = IF result # None
                                 THEN Released(Val(result).market_id)
                                 ELSE open_positions
            /\ last' = [op |-> "settle_cancel", trade_id |-> trade_id,
                        result |-> result]
            /\ UNCHANGED <<recent_decisions, dbVars, now, next_id, cycle, rankerVars>>

(* one draw of the slippage: the entry price plays no part in the gates *)
PipelineSlippages == {50}

PipelineNext ==
    \/ MonitorFetch
    \/ MonitorSignal({TRUE}, PipelineSlippages)
    \/ SettleClose
    \/ SettleCancel
    \/ ApiReset
    \/ Tick(MainTicks)

PipelineSpec == MainInit /\ [][PipelineNext]_vars

----------------------------------------------------------------------------
(* One signal taken through the whole chain with its consensus set: decide *)
(* on the Simulator's balance, execute_trade if accepted, then             *)
(* register_position; positions are closed on the Simulator                *)

CopyScores == {60, 95}

CopySignals ==
    [whale_address : {"w1"}, market_id : Markets, side : {"YES"}, price : {60}]

CopyTrade ==
    \E signal \in CopySignals, score \in CopyScores, others \in OtherSignals,
       base_slippage \in BaseSlippages, tie_up \in BOOLEAN :
        LET whale == [address |-> signal.whale_address, score |-> score]
            decision == DecideResult(signal, whale, balance, None, others, tie_up)
            result == ExecuteResult(signal, decision, base_slippage)
            opened == decision.should_copy /\ result # None
        IN  /\ recent_decisions' = DecideCooldowns(signal, decision)
            /\ IF decision.should_copy
               THEN execute_trade(signal, decision, base_slippage, TRUE)
               ELSE UNCHANGED <<simVars, dbVars, next_id>>
            /\ open_positions' =
                   IF opened
                   THEN Registered(Val(result).market_id, Val(result).id)
                   ELSE open_positions
            /\ last' = [op |-> "copy", signal |-> signal, score |-> score,
                        others |-> others, decision |-> decision,
                        result |-> IF opened THEN result ELSE None]
            /\ UNCHANGED <<now, cycle, rankerVars>>

EndToEndNext == CopyTrade \/ Close

EndToEndSpec == MainInit /\ [][EndToEndNext]_vars

----------------------------------------------------------------------------

(* a restart that keeps the Decider's cooldowns and registry *)
RestartKeepingDecider ==
    \E load_ok \in BOOLEAN :
        LET p == PaperTraderInit(None, db_trades, db_balance, load_ok)
        IN  /\ balance' = p.balance
            /\ initial_balance' = p.initial_balance
            /\ positions' = p.positions
            /\ trade_history' = p.trade_history
            /\ stats' = p.stats
            /\ balance_history' = p.balance_history
            /\ cycle' = NoCycle
            /\ traders' = << >>
            /\ rankings' = << >>
            /\ last' = [op |-> "restart", load_ok |-> load_ok,
                        total_value |-> TotalValue(balance, positions)]
            /\ UNCHANGED <<deciderVars, dbVars, now, next_id>>

(* Shutdown and restart: the module globals of app/main.py are built anew  *)
(* over the store the previous process left                                *)

Restart ==
    \E load_ok \in BOOLEAN :
        LET p == PaperTraderInit(None, db_trades, db_balance, load_ok)
        IN  /\ balance' = p.balance
            /\ initial_balance' = p.initial_balance
            /\ positions' = p.positions
            /\ trade_history' = p.trade_history
            /\ stats' = p.stats
            /\ balance_history' = p.balance_history
            /\ recent_decisions' = EmptyMap
            /\ open_positions' = EmptyMap
            /\ cycle' = NoCycle
            /\ traders' = << >>
            /\ rankings' = << >>
            /\ last' = [op |-> "restart", load_ok |-> load_ok,
                        total_value |-> TotalValue(balance, positions)]
            /\ UNCHANGED <<dbVars, now, next_id>>

(* the Simulator over a store that may fail, across restarts *)
StoreNext == Execute(SaveOutcomes) \/ Close \/ Cancel \/ Reset \/ Restart

StoreSpec == MainInit /\ [][StoreNext]_vars

----------------------------------------------------------------------------

(* the monitor over a store, across restarts of the process *)

RestartNext ==
    \/ MonitorFetch
    \/ MonitorSignal({TRUE}, PipelineSlippages)
    \/ Restart

RestartSpec == MainInit /\ [][RestartNext]_vars

----------------------------------------------------------------------------

(* the monitor over cycles in which two whales signal one market, on the   *)
(* same side or on opposite sides                                          *)

ConsensusFeed ==
    {[whale_address |-> w, market_id |-> 1, side |-> sd, price |-> 60] :
        w \in {"w1", "w2"}, sd \in Sides}

ConsensusBatches == [1 .. MaxSignals -> ConsensusFeed]

CycleNext ==
    \/ MonitorFetchFrom(ConsensusBatches)
    \/ MonitorSignal({TRUE}, PipelineSlippages)
    \/ ApiReset
    \/ Tick(MainTicks)

CycleSpec == MainInit /\ [][CycleNext]_vars

----------------------------------------------------------------------------
(* Claims *)

(* C1: the Simulator's balance is never negative, whatever sequence of     *)
(* execute, close, cancel and reset runs                                   *)
BalanceNeverNegative == balance >= 0

(* C1: a trade has just been closed at a total loss, and what is left of  *)
(* the balance no longer covers another trade                              *)
BalanceNeverNegativeWitness ==
    /\ last.op = "close"
    /\ last.result # None
    /\ Val(last.result).profit = Some(-300)
    /\ balance < 300

(* C2: execute changes the Simulator exactly when it returns a Trade: then *)
(* the balance drops by decision.amount, the trade is open with that       *)
(* amount and both counters go up by one; when it returns None nothing of  *)
(* the Simulator changes                                                   *)
ExecuteChangesExactlyOnAccept ==
    [][last'.op = "execute" =>
        IF last'.result # None
        THEN LET t == Val(last'.result)
             IN  /\ balance' = balance - last'.decision.amount
                 /\ t.id \notin DOMAIN positions
                 /\ t.id \in DOMAIN positions'
                 /\ positions'[t.id] = t
                 /\ t.status = "OPEN"
                 /\ t.amount = last'.decision.amount
                 /\ stats'.total_trades = stats.total_trades + 1
                 /\ stats'.open_trades = stats.open_trades + 1
        ELSE /\ balance' = balance
             /\ positions' = positions
             /\ trade_history' = trade_history
             /\ stats' = stats
             /\ balance_history' = balance_history]_vars

(* C2: a trade is open and a later execute was refused for its amount *)
ExecuteChangesExactlyOnAcceptWitness ==
    /\ last.op = "execute"
    /\ last.result = None
    /\ last.decision.should_copy
    /\ last.decision.amount > balance
    /\ \E i \in DOMAIN positions : positions[i].amount = 300

(* C3: in the pipeline (decide, execute, register_position per signal;     *)
(* every close or cancel followed by the Decider's close_position), also   *)
(* after cooldowns have run out, the Simulator never holds two OPEN trades *)
(* of one market                                                           *)
OneOpenTradePerMarket ==
    \A i, j \in DOMAIN positions :
        i # j => positions[i].market_id # positions[j].market_id

(* C3: a signal of a market with an open trade has just been turned down   *)
(* although the market's cooldown had run out                              *)
OneOpenTradePerMarketWitness ==
    /\ last.op = "monitor"
    /\ ~last.should_copy
    /\ \E i \in DOMAIN positions : positions[i].market_id = last.market_id
    /\ last.market_id \in DOMAIN recent_decisions
    /\ now - recent_decisions[last.market_id] >= 30

(* C4: decide never accepts when the score is below min_whale_score, the   *)
(* balance is below 1.0, the market has a cooldown entry less than 30      *)
(* minutes old, or the market is in the open-position registry, each as of *)
(* the time of the call                                                    *)
DecideGatesHold ==
    [][(last'.op = "decide" /\ last'.decision.should_copy) =>
        /\ last'.score >= 50
        /\ last'.balance >= 100
        /\ ~(/\ last'.market_id \in DOMAIN recent_decisions
             /\ now - recent_decisions[last'.market_id] < 30)
        /\ last'.market_id \notin DOMAIN open_positions]_vars

(* C4: decide has just turned down a signal whose score and balance pass,  *)
(* on a market outside the registry, 29 minutes into its cooldown          *)
DecideGatesHoldWitness ==
    /\ last.op = "decide"
    /\ ~last.decision.should_copy
    /\ last.score = 95
    /\ last.balance = 100000
    /\ last.market_id \notin DOMAIN open_positions
    /\ last.market_id \in DOMAIN recent_decisions
    /\ now - recent_decisions[last.market_id] = 29

(* C5: within one monitor cycle, once a trade was opened and registered    *)
(* for a market, every later signal of the cycle for that market is turned *)
(* down, so the cycle opens at most one trade per market                   *)
OneTradePerMarketPerCycle ==
    [][/\ (/\ last'.op = "monitor"
           /\ cycle.signals # << >>
           /\ \E k \in 1 .. Len(cycle.opened) :
                cycle.opened[k] = Head(cycle.signals).market_id)
          => (~last'.should_copy /\ last'.result = None)
       /\ \A k, l \in 1 .. Len(cycle'.opened) :
            k # l => cycle'.opened[k] # cycle'.opened[l]]_vars

(* C5: a second signal of the cycle, for the market the cycle has opened a *)
(* trade on, has just been turned down                                     *)
OneTradePerMarketPerCycleWitness ==
    /\ last.op = "monitor"
    /\ ~last.should_copy
    /\ cycle.opened = <<last.market_id>>
    /\ \E i \in DOMAIN positions : positions[i].market_id = last.market_id

(* C6: close sets exit_price to 1.0 for outcome YES, 0.0 for outcome NO    *)
(* and final_price otherwise; a YES trade earns amount * (1/entry - 1) if  *)
(* exit_price >= 0.99 and a NO trade amount * (1/(1 - entry) - 1) if       *)
(* exit_price <= 0.01, any other close loses the amount; the balance is    *)
(* credited with amount + profit                                           *)
BinaryPayout ==
    [][(last'.op = "close" /\ last'.result # None) =>
        LET t == Val(last'.result)
            exit == IF last'.outcome = "YES" THEN 1000000
                    ELSE IF last'.outcome = "NO" THEN 0
                    ELSE last'.final_price
            won == IF t.side = "YES" THEN exit >= 990000 ELSE exit <= 10000
            profit == IF ~won THEN -t.amount
                      ELSE IF t.side = "YES"
                      THEN (t.amount * (1000000 - t.entry_price)) \div t.entry_price
                      ELSE (t.amount * t.entry_price) \div (1000000 - t.entry_price)
        IN  /\ t.exit_price = Some(exit)
            /\ t.profit = Some(profit)
            /\ balance' = balance + t.amount + profit
            /\ ~won => balance' = balance]_vars

(* C6: a NO trade has just been closed as a winner *)
BinaryPayoutWitness ==
    /\ last.op = "close"
    /\ last.result # None
    /\ Val(last.result).side = "NO"
    /\ Val(last.result).exit_price = Some(10000)
    /\ Val(Val(last.result).profit) > 0

(* C7: a trade only moves from OPEN to CLOSED or CANCELLED and stays       *)
(* there; close and cancel of an id that is not open return None and       *)
(* change nothing of the Simulator, so nothing is paid or refunded twice   *)
TradeLifecycle ==
    [][/\ (last'.op \in {"close", "cancel"} /\ last'.trade_id \notin DOMAIN positions)
          => /\ last'.result = None
             /\ balance' = balance
             /\ positions' = positions
             /\ trade_history' = trade_history
             /\ stats' = stats
             /\ balance_history' = balance_history
       /\ last'.op # "reset"
          => /\ \A k \in 1 .. Len(trade_history) :
                  /\ k <= Len(trade_history')
                  /\ trade_history'[k] = trade_history[k]
             /\ \A k \in 1 .. Len(trade_history') :
                  trade_history'[k].status \in {"CLOSED", "CANCELLED"}
             /\ \A i \in DOMAIN positions :
                  \/ i \in DOMAIN positions' /\ positions'[i] = positions[i]
                  \/ /\ i \notin DOMAIN positions'
                     /\ positions[i].status = "OPEN"
                     /\ Len(trade_history') = Len(trade_history) + 1
                     /\ trade_history'[Len(trade_history')].id = i]_vars

(* C7: close has just been called for a trade that is already settled *)
TradeLifecycleWitness ==
    /\ last.op = "close"
    /\ last.result = None
    /\ \E k \in 1 .. Len(trade_history) : trade_history[k].id = last.trade_id

(* C8: every trade of the open-position map is OPEN with profit and        *)
(* profit_percent unset; every trade of the history is CLOSED or           *)
(* CANCELLED, a CLOSED one with exit_price and profit set; no trade id is  *)
(* in both                                                                 *)
TradeStatesConsistent ==
    /\ \A i \in DOMAIN positions :
         /\ positions[i].status = "OPEN"
         /\ positions[i].profit = None
         /\ positions[i].profit_percent = None
    /\ \A k \in 1 .. Len(trade_history) :
         /\ trade_history[k].status \in {"CLOSED", "CANCELLED"}
         /\ trade_history[k].status = "CLOSED" =>
              (trade_history[k].exit_price # None /\ trade_history[k].profit # None)
         /\ trade_history[k].id \notin DOMAIN positions

(* C8: one trade is open while the history holds a cancelled one *)
TradeStatesConsistentWitness ==
    /\ \E i \in DOMAIN positions : positions[i].status = "OPEN"
    /\ \E k \in 1 .. Len(trade_history) :
         /\ trade_history[k].status = "CANCELLED"
         /\ trade_history[k].profit = Some(0)

(* C9: cancel of the trade execute has just returned puts the balance back *)
(* to its value before execute; a cancel refunds the amount, sets profit 0 *)
(* and status CANCELLED, moves the trade to the history and leaves the     *)
(* closed count, wins, losses, total_profit and total_invested alone       *)
CancelRoundTrip ==
    [][(last'.op = "cancel" /\ last'.result # None) =>
        LET t == Val(last'.result)
        IN  /\ t.id = last'.trade_id
            /\ t.status = "CANCELLED"
            /\ t.profit = Some(0)
            /\ balance' = balance + t.amount
            /\ trade_history' = Append(trade_history, t)
            /\ t.id \notin DOMAIN positions'
            /\ stats'.closed_trades = stats.closed_trades
            /\ stats'.wins = stats.wins
            /\ stats'.losses = stats.losses
            /\ stats'.total_profit = stats.total_profit
            /\ stats'.total_invested = stats.total_invested
            /\ (/\ last.op = "execute"
                /\ last.result # None
                /\ Val(last.result).id = t.id)
               => balance' = last.balance_before]_vars

(* C9: the only trade so far has just been cancelled *)
CancelRoundTripWitness ==
    /\ last.op = "cancel"
    /\ last.result # None
    /\ Len(trade_history) = 1
    /\ trade_history[1].status = "CANCELLED"
    /\ DOMAIN positions = {}
    /\ balance = initial_balance

(* C10: after a restart the balance plus the amounts of the recovered open *)
(* positions is what it was at shutdown                                    *)
RestartKeepsTotalValue ==
    last.op = "restart" =>
        balance + SumAmounts(positions, DOMAIN positions) = last.total_value

(* C11: when save_trade raises while a trade is opened, execute_trade      *)
(* still returns the Trade, the balance stays debited by its amount and    *)
(* the trade stays in the open-position map                                *)
SaveFailureKeepsTrade ==
    [][(/\ last'.op = "execute"
        /\ last'.result # None
        /\ Val(last'.result).id \notin DOMAIN db_trades')
       => LET t == Val(last'.result)
          IN  /\ balance' = balance - t.amount
              /\ t.id \in DOMAIN positions'
              /\ positions'[t.id] = t
              /\ t.id \notin DOMAIN positions
              /\ stats'.open_trades = stats.open_trades + 1]_vars

(* C11: a trade was just opened and the store holds no row for it *)
SaveFailureKeepsTradeWitness ==
    /\ last.op = "execute"
    /\ last.result # None
    /\ Val(last.result).id \in DOMAIN positions
    /\ Val(last.result).id \notin DOMAIN db_trades
    /\ balance = last.balance_before - Val(last.result).amount

(* C12: an accepted decision's amount is at most the balance passed to     *)
(* decide and at most max_trade_percent of it                              *)
AcceptedAmountWithinCaps ==
    (last.op = "decide" /\ last.decision.should_copy) =>
        /\ last.decision.amount <= last.balance
        /\ last.decision.amount * 100 <= last.balance * MaxTradePercent

(* C13: every accepted decision and every amount DynamicSizer.calculate    *)
(* returns is at least one dollar                                          *)
AmountAtLeastOneDollar ==
    /\ (last.op = "decide" /\ last.decision.should_copy) =>
            last.decision.amount >= Dollar
    /\ last.op = "calculate" => last.amount >= Dollar

(* C14: from a balance of 1000.00, a whale of score 95 with two other      *)
(* whales on the same market and side is copied with 500.00, the YES       *)
(* position at 0.60 leaves a balance of 500.00, and closing it with        *)
(* outcome "YES" pays 500*(1/entry_price - 1) > 0, giving a balance of     *)
(* 1000.00 plus the profit and one win, no loss, one closed trade          *)
EndToEnd ==
    [][/\ (/\ last'.op = "copy"
           /\ balance = 100000
           /\ last'.score = 95
           /\ last'.signal.side = "YES"
           /\ last'.signal.price = 60
           /\ Len(last'.others) = 2
           /\ \A i \in 1 .. 2 :
                /\ last'.others[i].market_id = last'.signal.market_id
                /\ last'.others[i].side = "YES"
                /\ last'.others[i].whale_address # last'.signal.whale_address
           /\ last'.signal.market_id \notin DOMAIN recent_decisions
           /\ last'.signal.market_id \notin DOMAIN open_positions)
          => /\ last'.decision.should_copy
             /\ last'.decision.amount = 50000
             /\ last'.decision.consensus_count = 3
             /\ last'.result # None
             /\ balance' = 50000
             /\ Val(last'.result).id \in DOMAIN positions'
             /\ positions'[Val(last'.result).id].status = "OPEN"
             /\ positions'[Val(last'.result).id].amount = 50000
       /\ (/\ last'.op = "close"
           /\ last'.outcome = "YES"
           /\ last'.result # None
           /\ Val(last'.result).side = "YES"
           /\ Val(last'.result).amount = 50000
           /\ balance = 50000
           /\ stats.closed_trades = 0)
          => LET t == Val(last'.result)
                 e == t.entry_price \div 1000
                 profit == (500 * (1000 - e) * 100) \div e
             IN  /\ t.entry_price % 1000 = 0
                 /\ t.profit = Some(profit)
                 /\ profit > 0
                 /\ balance' = 100000 + profit
                 /\ stats'.wins = 1
                 /\ stats'.losses = 0
                 /\ stats'.closed_trades = 1]_vars

(* C14: the 500.00 YES position has been closed as a winner *)
EndToEndWitness ==
    /\ last.op = "close"
    /\ last.outcome = "YES"
    /\ last.result # None
    /\ Val(last.result).side = "YES"
    /\ Val(last.result).amount = 50000
    /\ balance > 100000
    /\ stats.wins = 1
    /\ stats.losses = 0
    /\ stats.closed_trades = 1

(* C15: a decision that reaches the final-score step carries               *)
(* min(score + min((consensus_count - 1) * 10, 30), 100), at most 60 when  *)
(* a market with liquidity below 1000 is supplied, where consensus_count   *)
(* is one plus the other whales' signals on the same market and side       *)
FinalScoreComputed ==
    (last.op = "decide" /\ last.decision.reason \in {"confidence", "accept"}) =>
        LET agreeing == {i \in 1 .. Len(last.others) :
                            /\ last.others[i].market_id = last.market_id
                            /\ last.others[i].side = "YES"
                            /\ last.others[i].whale_address # "w1"}
            count == 1 + Cardinality(agreeing)
            bonus == IF (count - 1) * 10 < 30 THEN (count - 1) * 10 ELSE 30
            sum == last.score + bonus
            final == IF sum < 100 THEN sum ELSE 100
            thin == last.market # None /\ Val(last.market).liquidity < 1000
            confidence == IF thin /\ final > 60 THEN 60 ELSE final
        IN  /\ last.decision.consensus_count = count
            /\ last.decision.confidence = confidence
            /\ last.decision.confidence <= 100
            /\ thin => last.decision.confidence <= 60
            /\ last.decision.should_copy = (confidence >= 50)

(* C15: five whales agree and the bonus stops at 30: 65 becomes 95 *)
FinalScoreComputedWitness ==
    /\ last.op = "decide"
    /\ last.score = 65
    /\ last.decision.consensus_count = 5
    /\ last.decision.confidence = 95
    /\ last.decision.should_copy

(* C16: decide reports the first gate that fails in the order score,       *)
(* balance, cooldown, open position, final-score threshold; a rejection    *)
(* has should_copy false and amount 0, carries the trader's score as       *)
(* confidence at gates 1-4 and the consensus-adjusted final score at gate  *)
(* 6; every decision has confidence in 0..100 and consensus_count >= 1     *)
DecideReportsFirstGate ==
    [][last'.op = "decide" =>
        LET d == last'.decision
            low_score == last'.score < last'.min_whale_score
            low_balance == last'.balance < 100
            cooling == /\ last'.market_id \in DOMAIN recent_decisions
                       /\ now - recent_decisions[last'.market_id] < 30
            holding == last'.market_id \in DOMAIN open_positions
            bonus == IF Len(last'.others) = 2 /\ last'.market_id = 1
                     THEN 20 ELSE 0
            sum == last'.score + bonus
            thin == last'.market # None /\ Val(last'.market).liquidity < 1000
            final == IF thin /\ sum > 60 THEN 60
                     ELSE IF sum > 100 THEN 100 ELSE sum
            expected == IF low_score THEN "score"
                        ELSE IF low_balance THEN "balance"
                        ELSE IF cooling THEN "cooldown"
                        ELSE IF holding THEN "open_position"
                        ELSE IF final < 50 THEN "confidence"
                        ELSE "accept"
        IN  /\ d.reason = expected
            /\ d.should_copy = (expected = "accept")
            /\ ~d.should_copy => d.amount = 0
            /\ expected \in {"score", "balance", "cooldown", "open_position"}
                   => d.confidence = last'.score
            /\ expected = "confidence" => d.confidence = final
            /\ d.confidence >= 0
            /\ d.confidence <= 100
            /\ d.consensus_count >= 1]_vars

(* C16: score and balance both fail and the score gate is reported *)
DecideReportsFirstGateWitness ==
    /\ last.op = "decide"
    /\ last.score < last.min_whale_score
    /\ last.balance < 100
    /\ last.decision.reason = "score"
    /\ last.decision.confidence = last.score

(* C17: get_consensus_for_market changes nothing and, over the signals of  *)
(* the market only, answers YES or NO for the larger count with strength   *)
(* majority/total*100, MIXED with strength 50 for equal non-zero counts    *)
(* and NONE with strength 0 for no signal                                  *)
ConsensusForMarket ==
    [][last'.op = "consensus" =>
        LET r == last'.result
            on_market == {i \in 1 .. Len(last'.signals) :
                             last'.signals[i].market_id = last'.market_id}
            yes == Cardinality({i \in on_market : last'.signals[i].side = "YES"})
            no == Cardinality({i \in on_market : last'.signals[i].side = "NO"})
            major == IF yes > no THEN yes ELSE no
        IN  /\ r.yes_count = yes
            /\ r.no_count = no
            /\ yes > no => r.consensus = "YES"
            /\ no > yes => r.consensus = "NO"
            /\ (yes = no /\ yes > 0) => (r.consensus = "MIXED" /\ r.strength = 50000)
            /\ yes + no = 0 => (r.consensus = "NONE" /\ r.strength = 0)
            /\ yes # no =>
                   /\ r.strength * (yes + no) <= major * 100000
                   /\ major * 100000 < (r.strength + 1) * (yes + no)
            /\ UNCHANGED <<recent_decisions, open_positions, balance, positions>>]_vars

(* C17: one YES and one NO signal on the market, and one on another market *)
ConsensusForMarketWitness ==
    /\ last.op = "consensus"
    /\ Len(last.signals) = 3
    /\ last.result.consensus = "MIXED"
    /\ last.result.strength = 50000
    /\ last.result.yes_count = 1
    /\ last.result.no_count = 1
    /\ DOMAIN open_positions # {}

(* C18: the ranking lists the tracked addresses, each once, in             *)
(* non-increasing order of score; top(n) returns at most min(n, tracked    *)
(* count) traders, all tracked, and they are the first n of the ranking    *)
RankingSorted ==
    /\ Len(rankings) = Len(traders)
    /\ {rankings[i] : i \in DOMAIN rankings} = {traders[i].address : i \in DOMAIN traders}
    /\ \A i, j \in DOMAIN rankings : i # j => rankings[i] # rankings[j]
    /\ \A i, j \in DOMAIN rankings :
         i < j => \A k, l \in DOMAIN traders :
                    (traders[k].address = rankings[i] /\ traders[l].address = rankings[j])
                        => traders[k].score >= traders[l].score
    /\ last.op = "top" =>
         /\ Len(last.result) <= last.n
         /\ Len(last.result) <= Len(traders)
         /\ \A i \in DOMAIN last.result :
              /\ \E k \in DOMAIN traders : traders[k] = last.result[i]
              /\ last.result[i].address = rankings[i]
         /\ Len(last.result) = IF last.n < Len(traders) THEN last.n
                               ELSE Len(traders)

(* C18: top(2) of three tracked traders with different scores *)
RankingSortedWitness ==
    /\ last.op = "top"
    /\ last.n = 2
    /\ Len(traders) = 3
    /\ Len(last.result) = 2
    /\ last.result[1].score > last.result[2].score
    /\ traders[1].score < traders[3].score

(* C19: every tracked trader's heat_level is hot for a score of at least   *)
(* 70, warm for at least 50 and cold below                                 *)
HeatLevelFollowsScore ==
    \A i \in DOMAIN traders :
        traders[i].heat_level = IF traders[i].score >= 70 * 3000 THEN "hot"
                                ELSE IF traders[i].score >= 50 * 3000 THEN "warm"
                                ELSE "cold"

(* C20: the score is between 0 and 100, and with the other five factors    *)
(* held fixed it does not fall when win_rate, roi_30d, trade_count,        *)
(* consistency or diversity_score rises and does not rise when             *)
(* max_drawdown rises, at every step of a hundredth (of one trade) across  *)
(* the whole range and its breakpoints                                     *)
ScoreMonotone ==
    last.op = "score" =>
        LET s == last.stats
            at(f, x) == final_score([s EXCEPT ![f] = x])
        IN  /\ last.trader.score = final_score(s)
            /\ last.trader.score >= 0
            /\ last.trader.score <= 100 * 3000
            /\ \A f \in {"win_rate", "consistency", "diversity_score"} :
                 \A x \in 0 .. 99 :
                    /\ at(f, x) <= at(f, x + 1)
                    /\ (x <= s[f] => at(f, x) <= last.trader.score)
                    /\ (x >= s[f] => at(f, x) >= last.trader.score)
            /\ \A x \in -40 .. 49 :
                    /\ at("roi_30d", x) <= at("roi_30d", x + 1)
                    /\ at("roi_30d", x) >= 0
            /\ \A x \in 0 .. 119 : at("trade_count", x) <= at("trade_count", x + 1)
            /\ \A x \in 0 .. 99 :
                    /\ at("max_drawdown", x) >= at("max_drawdown", x + 1)
                    /\ at("max_drawdown", x) <= 100 * 3000

(* C20: a trader of middling statistics scored strictly between 0 and 100, *)
(* and one more point of win rate raises the score                         *)
ScoreMonotoneWitness ==
    /\ last.op = "score"
    /\ last.stats.win_rate = 50
    /\ last.stats.max_drawdown = 30
    /\ last.trader.score > 0
    /\ last.trader.score < 100 * 3000
    /\ final_score([last.stats EXCEPT !.win_rate = 51]) > last.trader.score

SizerTierOfMax ==
    (last.op = "calculate" /\ last.balance % 100 = 0) =>
        LET tier == IF last.score >= 90 THEN 40
                    ELSE IF last.score >= 70 THEN 25
                    ELSE IF last.score >= 50 THEN 10
                    ELSE 5
            multiplier == 100 + Min((last.consensus - 1) * 25, 50)
            claimed == (last.balance \div 100) * tier * 50 * multiplier
        IN  (claimed >= 100 * 10000 /\ claimed % 10000 = 0) =>
                last.amount = claimed \div 10000

(* C23: the risk/reward estimate returns a result and raises nothing for   *)
(* every entry price from 0 to 1 and both sides                            *)
RiskRewardTotal ==
    last.op = "risk_reward" =>
        /\ last.outcome.raised = None
        /\ last.outcome.result # None

(* C24 as stated: every operation of the Simulator keeps the samples of    *)
(* the balance history where they are and adds new ones only at the end    *)
BalanceHistoryAppendOnly ==
    [][last'.op \in {"execute", "close", "cancel", "reset"} =>
          /\ Len(balance_history') >= Len(balance_history)
          /\ SubSeq(balance_history', 1, Len(balance_history)) = balance_history]_vars

(* C24: execute, close and cancel keep the samples of the balance history  *)
(* where they are and add at most one sample, at the end; reset replaces   *)
(* the history by a single new sample                                      *)
BalanceHistoryAppendOnlyUntilReset ==
    [][/\ last'.op \in {"execute", "close", "cancel"} =>
             /\ Len(balance_history') \in {Len(balance_history),
                                           Len(balance_history) + 1}
             /\ SubSeq(balance_history', 1, Len(balance_history)) = balance_history
       /\ last'.op = "reset" => Len(balance_history') = 1]_vars

(* C24: a history of three samples, the first from the construction, the   *)
(* second from an execute and the last from the close that just ran        *)
BalanceHistoryAppendOnlyWitness ==
    /\ last.op = "close"
    /\ last.result # None
    /\ Len(balance_history) = 3
    /\ balance_history[1].trade_count = 0
    /\ balance_history[2].balance < balance_history[1].balance
    /\ balance_history[3].trade_count = 1

(* C25: after reset the balance is the initial balance, there is no open   *)
(* position and no trade in the history, every statistic is zero, pnl is   *)
(* 0 and the balance history is one sample with that balance               *)
ResetRestoresInitialState ==
    last.op = "reset" =>
        /\ balance = initial_balance
        /\ positions = EmptyMap
        /\ trade_history = << >>
        /\ \A f \in DOMAIN stats : stats[f] = 0
        /\ Pnl(balance, positions, initial_balance) = 0
        /\ Len(balance_history) = 1
        /\ balance_history[1].balance = balance

(* C25: a reset after both trade ids have been used and a trade was stored *)
ResetRestoresInitialStateWitness ==
    /\ last.op = "reset"
    /\ next_id = 3
    /\ DOMAIN db_trades # {}

DecideExecuteRegisterAtomic ==
    [][/\ (last'.op = "monitor" /\ last'.should_copy) =>
             /\ last'.result # None
             /\ Val(last'.result).amount <= balance
             /\ balance' = balance - Val(last'.result).amount
             /\ Val(last'.result).id \in DOMAIN positions'
             /\ Val(last'.result).id \notin DOMAIN positions
       /\ \A id \in DOMAIN positions' :
             /\ positions'[id].market_id \in DOMAIN open_positions'
             /\ open_positions'[positions'[id].market_id] = id]_vars

(* C27: the monitor has opened a trade after the manual simulate action    *)
(* opened another, and both are open and registered                        *)
DecideExecuteRegisterAtomicWitness ==
    /\ last.op = "monitor"
    /\ last.should_copy
    /\ last.result # None
    /\ Cardinality(DOMAIN positions) = 2
    /\ \E id \in DOMAIN positions : positions[id].market_id > 100
    /\ \A id \in DOMAIN positions :
          /\ positions[id].market_id \in DOMAIN open_positions
          /\ open_positions[positions[id].market_id] = id

(* C28: right after a restart the Decider has no cooldown and no           *)
(* registered position while the Simulator holds again every trade the     *)
(* store has as OPEN (when the store could be read), and a signal of a     *)
(* whale of score 95 on the market of any recovered position passes every  *)
(* gate of decide                                                          *)
RestartForgetsDecider ==
    last.op = "restart" =>
        /\ recent_decisions = EmptyMap
        /\ open_positions = EmptyMap
        /\ last.load_ok =>
              DOMAIN positions = {i \in DOMAIN db_trades : db_trades[i].status = "OPEN"}
        /\ \A id \in DOMAIN positions, tie_up \in BOOLEAN :
              balance >= 100 =>
                 DecideResult([whale_address |-> "w1",
                               market_id |-> positions[id].market_id,
                               side |-> positions[id].side, price |-> 60],
                              [address |-> "w1", score |-> 95], balance, None,
                              << >>, tie_up).should_copy

(* C28: the monitor has just opened a second trade on a market in which a  *)
(* recovered trade is still open                                           *)
RestartForgetsDeciderWitness ==
    /\ last.op = "monitor"
    /\ last.result # None
    /\ \E i \in DOMAIN positions, j \in DOMAIN positions :
          /\ i # j
          /\ j = Val(last.result).id
          /\ i \in DOMAIN db_trades
          /\ positions[i].market_id = positions[j].market_id
          /\ positions[i].status = "OPEN"
          /\ positions[j].status = "OPEN"

(* C29: no trade that the process closed or cancelled is in the            *)
(* open-position map of the Simulator constructed by the restart that      *)
(* follows                                                                 *)
SettledTradesNotRecovered ==
    [][last'.op = "restart" =>
          \A k \in 1 .. Len(trade_history) :
              trade_history[k].id \notin DOMAIN positions']_vars

(* C30: a call of decide that passes the score and balance gates is        *)
(* rejected by the cooldown gate exactly when the market has a cooldown    *)
(* entry less than 30 minutes old; a rejected call leaves the cooldown map *)
(* and the registry as they were; an accepted call sets the market's       *)
(* entry to the current time and changes nothing else; and a qualifying    *)
(* signal on a market without an entry under 30 minutes old and without a  *)
(* registered position is accepted                                         *)
CooldownWindow ==
    [][last'.op = "decide" =>
          LET m == last'.market_id
              d == last'.decision
              qualifies == last'.score >= 50 /\ last'.balance >= 100
              cooling == /\ m \in DOMAIN recent_decisions
                         /\ now - recent_decisions[m] < 30
          IN  /\ (d.reason = "cooldown") <=> (qualifies /\ cooling)
              /\ ~d.should_copy => /\ recent_decisions' = recent_decisions
                                   /\ open_positions' = open_positions
              /\ d.should_copy =>
                    /\ DOMAIN recent_decisions' = DOMAIN recent_decisions \cup {m}
                    /\ recent_decisions'[m] = now
                    /\ \A k \in DOMAIN recent_decisions \ {m} :
                          recent_decisions'[k] = recent_decisions[k]
                    /\ open_positions' = open_positions
              /\ (qualifies /\ ~cooling /\ m \notin DOMAIN open_positions) =>
                    d.should_copy]_vars

(* C30: 29 minutes after a decision on the market was accepted, a signal   *)
(* of a whale of score 95 on it has just been rejected by the cooldown     *)
(* gate, and the entry is still the one of minute 0                        *)
CooldownWindowWitness ==
    /\ last.op = "decide"
    /\ last.decision.reason = "cooldown"
    /\ last.score = 95
    /\ now = 29
    /\ recent_decisions[last.market_id] = 0

(* C31: after the reset action (reset, then clear_cooldowns) every market  *)
(* the Decider has registered as holding an open position is the market   *)
(* of a trade in the Simulator's open-position map                         *)
ResetClearsRegistry ==
    last.op = "api_reset" =>
        \A m \in DOMAIN open_positions :
            \E id \in DOMAIN positions : positions[id].market_id = m

(* C32: when the first signal of a cycle is accepted, its decision counts  *)
(* every whale that has a signal on the same market and side in the cycle: *)
(* consensus_count is 2 when one other whale has such a signal             *)
CycleConsensus ==
    [][(/\ last.op = "fetch"
        /\ last'.op = "monitor"
        /\ last'.should_copy) =>
          LET first == Head(cycle.signals)
              agreeing == {cycle.signals[k].whale_address :
                             k \in {j \in DOMAIN cycle.signals :
                                      /\ cycle.signals[j].market_id = first.market_id
                                      /\ cycle.signals[j].side = first.side}}
          IN  last'.consensus_count = Cardinality(agreeing)]_vars

(* C33: the consensus_count of a decision is at most the number of         *)
(* distinct whales, the signalling whale (w1, on YES) included, that have  *)
(* a signal on the decided market and side                                 *)
ConsensusCountsWhales ==
    last.op = "decide" =>
        LET agreeing == {last.others[k].whale_address :
                           k \in {j \in DOMAIN last.others :
                                    /\ last.others[j].market_id = last.market_id
                                    /\ last.others[j].side = "YES"}}
        IN  last.decision.consensus_count <= Cardinality(agreeing \cup {"w1"})

(* C34: in every state of a Simulator that started fresh, the balance      *)
(* plus the amounts of the open positions is the initial balance plus the  *)
(* profits of the CLOSED trades in the history, and the pnl is             *)
(* TradingStats.total_profit                                               *)
CapitalConserved ==
    LET h == trade_history
        profits[k \in 0 .. Len(h)] ==
            IF k = 0 THEN 0
            ELSE profits[k - 1]
                 + (IF h[k].status = "CLOSED" THEN Val(h[k].profit) ELSE 0)
        open[ids \in SUBSET DOMAIN positions] ==
            IF ids = {} THEN 0
            ELSE LET i == CHOOSE x \in ids : TRUE
                 IN  positions[i].amount + open[ids \ {i}]
    IN  /\ balance + open[DOMAIN positions] = initial_balance + profits[Len(h)]
        /\ Pnl(balance, positions, initial_balance) = stats.total_profit

(* C34: a trade has been opened after an earlier one was closed at a       *)
(* profit, so that pnl is not zero while a position is open                *)
CapitalConservedWitness ==
    /\ last.op = "execute"
    /\ last.result # None
    /\ positions # EmptyMap
    /\ stats.total_profit > 0
    /\ Len(trade_history) >= 1
    /\ balance < initial_balance + stats.total_profit


(* C35: in every Simulator state, built fresh or over the store's rows,    *)
(* open_trades is the size of the open-position map, closed_trades is      *)
(* wins + losses and the number of CLOSED trades in the history, and       *)
(* total_trades is open + CLOSED + CANCELLED trades                        *)
CountersConsistent ==
    LET h == trade_history
        closed == Cardinality({k \in 1 .. Len(h) : h[k].status = "CLOSED"})
        cancelled == Cardinality({k \in 1 .. Len(h) : h[k].status = "CANCELLED"})
    IN  /\ stats.open_trades = Cardinality(DOMAIN positions)
        /\ stats.closed_trades = stats.wins + stats.losses
        /\ stats.closed_trades = closed
        /\ stats.total_trades = Cardinality(DOMAIN positions) + closed + cancelled

(* C35: a Simulator built over the store's rows (its first balance sample  *)
(* counts the restored positions) has since closed a trade and still holds *)
(* an open one                                                             *)
CountersConsistentWitness ==
    /\ stats.open_trades >= 1
    /\ \E k \in 1 .. Len(trade_history) : trade_history[k].status = "CLOSED"
    /\ balance_history[1].trade_count >= 1
    /\ stats.total_trades >= 2


(* C36: a close adds 1 to closed_trades and to wins (profit > 0) or else   *)
(* to losses, adds the profit to total_profit and the amount to            *)
(* total_invested, and sets win_rate, avg_profit_per_trade and roi to the  *)
(* quotients of the new totals, best_trade_profit to the largest winning   *)
(* profit and worst_trade_loss to the smallest losing profit so far;       *)
(* execute and cancel leave all of these fields as they were               *)
StatsChangeOnClose ==
    [][LET derived(st) == <<st.closed_trades, st.wins, st.losses, st.win_rate,
                            st.total_profit, st.total_invested, st.roi,
                            st.best_trade_profit, st.worst_trade_loss,
                            st.avg_profit_per_trade>>
       IN  /\ (last'.op \in {"execute", "cancel"}) => derived(stats') = derived(stats)
           /\ (last'.op = "close" /\ last'.result = None)
                => derived(stats') = derived(stats)
           /\ (last'.op = "close" /\ last'.result # None)
                => LET t == Val(last'.result)
                       p == Val(t.profit)
                   IN  /\ stats'.closed_trades = stats.closed_trades + 1
                       /\ stats'.wins = stats.wins + (IF p > 0 THEN 1 ELSE 0)
                       /\ stats'.losses = stats.losses + (IF p > 0 THEN 0 ELSE 1)
                       /\ stats'.total_profit = stats.total_profit + p
                       /\ stats'.total_invested = stats.total_invested + t.amount
                       /\ stats'.total_invested > 0
                       /\ stats'.win_rate * stats'.closed_trades
                            <= stats'.wins * 1000
                       /\ stats'.wins * 1000
                            < (stats'.win_rate + 1) * stats'.closed_trades
                       /\ stats'.avg_profit_per_trade
                            = stats'.total_profit \div stats'.closed_trades
                       /\ stats'.roi * stats'.total_invested
                            <= stats'.total_profit * 1000
                       /\ stats'.total_profit * 1000
                            < (stats'.roi + 1) * stats'.total_invested
                       /\ stats'.best_trade_profit
                            = (IF p > 0 /\ p > stats.best_trade_profit
                               THEN p ELSE stats.best_trade_profit)
                       /\ stats'.worst_trade_loss
                            = (IF p <= 0 /\ p < stats.worst_trade_loss
                               THEN p ELSE stats.worst_trade_loss)]_vars

(* C36: a second trade has been closed, a loser after a winner, so that    *)
(* the quotients are of totals over two trades                             *)
StatsChangeOnCloseWitness ==
    /\ last.op = "close"
    /\ last.result # None
    /\ Val(Val(last.result).profit) < 0
    /\ stats.closed_trades = 2
    /\ stats.wins = 1
    /\ stats.losses = 1
    /\ stats.worst_trade_loss < 0
    /\ stats.best_trade_profit > 0


(* C37: after every execute, close, cancel or reset that changed the       *)
(* balance, the last sample of the balance history holds the current       *)
(* balance                                                                 *)
LastSampleIsBalance ==
    [][(/\ last'.op \in {"execute", "close", "cancel", "reset"}
        /\ balance' # balance)
       => balance_history'[Len(balance_history')].balance = balance']_vars


(* C38: every execute with should_copy and 0 <= amount <= balance opens a  *)
(* trade, whatever the signal price in [0, 1] and the slippage drawn: the  *)
(* deviation is at most 5% and never reaches the 10% rejection             *)
SlippageNeverRejects ==
    [][(/\ last'.op = "execute"
        /\ last'.decision.should_copy
        /\ 0 <= last'.decision.amount
        /\ last'.decision.amount <= balance)
       => /\ last'.result # None
          /\ Val(last'.result).id \in DOMAIN positions' \ DOMAIN positions
          /\ Val(last'.result).amount = last'.decision.amount
          /\ balance' = balance - last'.decision.amount
          /\ 100 * Abs(Val(last'.result).entry_price
                        - last'.signal.price * 10000)
               <= 5 * Max(last'.signal.price * 10000, 10000)
                  + 100 * 10000]_vars

(* C38: the whole balance has gone into a trade at signal price 0 with the *)
(* largest slippage, and a trade of amount 0 was opened at signal price 1  *)
SlippageNeverRejectsWitness ==
    /\ last.op = "execute"
    /\ last.result # None
    /\ last.signal.price = 100
    /\ last.decision.amount = 0
    /\ balance = 0
    /\ \E i \in DOMAIN positions :
          /\ positions[i].amount > 200
          /\ positions[i].entry_price = 10000


(* C39: every trade execute opens has an entry price in [0.01, 0.99], and  *)
(* the price has moved against the buyer only: for YES it is at least      *)
(* min(signal price, 0.99), for NO at most max(signal price, 0.01)         *)
EntryPriceInRange ==
    /\ \A i \in DOMAIN positions :
          /\ positions[i].entry_price >= 10000
          /\ positions[i].entry_price <= 990000
    /\ (last.op = "execute" /\ last.result # None)
          => LET t == Val(last.result)
                 price == last.signal.price * 10000
             IN  /\ t.entry_price >= 10000
                 /\ t.entry_price <= 990000
                 /\ t.side = "YES" =>
                        t.entry_price >= (IF price < 990000 THEN price ELSE 990000)
                 /\ t.side = "NO" =>
                        t.entry_price <= (IF price > 10000 THEN price ELSE 10000)

(* C39: a NO trade was opened at signal price 0.01, where the slipped      *)
(* price falls below the range, while a YES trade opened at signal price   *)
(* 1 is held                                                               *)
EntryPriceInRangeWitness ==
    /\ last.op = "execute"
    /\ last.result # None
    /\ last.signal.price = 1
    /\ last.signal.side = "NO"
    /\ Val(last.result).entry_price = 10000
    /\ \E i \in DOMAIN positions :
          /\ positions[i].side = "YES"
          /\ positions[i].entry_price = 990000
          /\ i # Val(last.result).id


(* C40: after every mutating call of the Ranker the ranking holds each     *)
(* tracked address exactly once and no other; traders with equal scores    *)
(* are ranked in the order in which their addresses entered the map;       *)
(* adding a tracked address replaces the stored trader in its place and    *)
(* keeps the count; removing an untracked address returns false and        *)
(* changes nothing                                                         *)
RankingIsPermutation ==
    [][LET keys(seq) == [i \in DOMAIN seq |-> seq[i].address]
           place(a) == CHOOSE k \in DOMAIN traders' : traders'[k].address = a
       IN  (last'.op \in {"add", "add_all", "remove", "rescan"}) =>
             /\ Len(rankings') = Len(traders')
             /\ \A k \in DOMAIN traders' :
                  Cardinality({i \in DOMAIN rankings' :
                                  rankings'[i] = traders'[k].address}) = 1
             /\ \A i \in DOMAIN rankings' :
                  \E k \in DOMAIN traders' : traders'[k].address = rankings'[i]
             /\ \A k, l \in DOMAIN traders' :
                  k # l => traders'[k].address # traders'[l].address
             /\ \A i, j \in DOMAIN rankings' :
                  (/\ i < j
                   /\ traders'[place(rankings'[i])].score
                        = traders'[place(rankings'[j])].score)
                  => place(rankings'[i]) < place(rankings'[j])
             /\ (last'.op = "add" /\ last'.tracked) =>
                  /\ Len(traders') = Len(traders)
                  /\ keys(traders') = keys(traders)
             /\ (last'.op = "add" /\ ~last'.tracked) =>
                  keys(traders') = Append(keys(traders), last'.address)
             /\ (last'.op = "remove" /\ ~last'.result) =>
                  /\ last'.address \notin {traders[k].address : k \in DOMAIN traders}
                  /\ traders' = traders
                  /\ rankings' = rankings
             /\ (last'.op = "remove" /\ last'.result) =>
                  keys(traders') =
                      SelectSeq(keys(traders), LAMBDA a : a # last'.address)]_vars

(* C40: "b" entered the map before "a" and has just been replaced by a     *)
(* trader of the same score as "a": the count is still two and "b" is      *)
(* ranked first                                                            *)
RankingIsPermutationWitness ==
    /\ last.op = "add"
    /\ last.tracked
    /\ last.address = "b"
    /\ Len(traders) = 2
    /\ traders[1].address = "b"
    /\ traders[2].address = "a"
    /\ traders[1].score = traders[2].score
    /\ traders[1].heat_level # traders[2].heat_level
    /\ rankings = <<"b", "a">>

====
